---- MODULE Spec2Model ----
(***************************************************************************)
(* msgtool: multi-source AI-content ingestion.                             *)
(*                                                                         *)
(* The module models, one component per specification,                    *)
(*   SpecDB  - the project state store (utils/github_db_new.py)            *)
(*   SpecCls - the LLM classifier (utils/ai_filter.py)                     *)
(*   SpecTr  - the translator (utils/translator.py)                        *)
(*   SpecSink - the output manager (output.py)                             *)
(*   SpecRun - the pipelines and the fetch cache (tools/, utils/cache.py)  *)
(*   SpecRss - the RSS pipeline (tools/rss_reader.py)                      *)
(*   SpecCrash - a crash during a write of the store file                  *)
(*   SpecCache, SpecThreads - the TTL cache with one caller, two threads   *)
(*   SpecCfg - the configuration manager (config.py)                       *)
(*   SpecSched - the scheduler (multi_scheduler.py)                        *)
(*   SpecGc  - the store's garbage collection                              *)
(*   SpecNorm - the normalization of saved item records                    *)
(*   SpecQuery - the search loop of the code-host adapter                  *)
(*   SpecFeed - the scheduler's feed sync and the feed fetch cache         *)
(*   SpecArxiv - the category fetches of the paper adapter                 *)
(* Time is counted in whole days; scores are counted in tenths.            *)
(***************************************************************************)
EXTENDS Integers, Sequences, FiniteSets, TLC

VARIABLES
    now,        \* datetime.now(), in days
    projects,   \* GitHubProjectDB.projects : key -> record
    disk,       \* content of github_projects.json
    dbCall,     \* the last store call: arguments, pre-state record, outcome
    clsPc,      \* classify_titles_batch: "idle", "loop", "done"
    clsIn,      \* its inputs: titles (the ids), batch_size, llm configured
    clsI,       \* the loop variable i (offset of the current batch)
    clsResults, \* results
    clsLast,    \* the last batch: its ids, the LLM response, its verdicts
    clsCalls,   \* requests sent to the LLM endpoint
    trCall,     \* the last translate_article_item call: inputs and result
    files,      \* the daily output directory: file name -> mtime and content
    sinkClock,  \* datetime.now() of the output manager, in seconds
    sinkSeq,    \* the number of file writes so far (orders the mtimes)
    sinkLog,    \* per source, the items append_items_batch has written today
    sinkCall,   \* the last output-manager call: arguments, file, outcome
    cache,      \* SimpleCache._cache : key -> value and expires_at
    clock,      \* time.time(), in seconds
    runPc,      \* the invocation in progress: "idle", "fetch", "classify", "batches"
    run,        \* its arguments, locals and, once it has returned, its outcome
    runs,       \* invocations started
    rssPc,      \* _fetch_single_feed: "idle", "classify", "translate", "returned", "raised"
    rss,        \* its arguments, its environment and its items list
    crash,      \* a crash during _save_database: the file before, the set being written
    shared,     \* a SimpleCache._cache used by several threads: key -> entry
    wall,       \* time.time() of those threads, in seconds
    thread,     \* per thread: the operation in progress, its locals, its outcome
    lastSet,    \* per key, the value of the most recent completed set
    cfgFile,    \* config.yaml: present or not, parseable or not, its sections
    config,     \* ConfigManager._config, the snapshot callers read
    cfgCall,    \* the last reload: the snapshot before it, its outcome
    schedPc,    \* the scheduler process: "idle", "loop", "job", "sleep", "gather", "done"
    sched,      \* its mode, its jobs, its clock, the job in progress and the job log
    norm,       \* the last _normalize_existing_record call: record and results
    query,      \* the search loop of fetch_github_trending: position, all_repos, log
    sync,       \* the last sync_rss call: what answered the fetch, what it wrote
    arxiv       \* search_arxiv: the category fetches started and completed

dbVars == <<now, projects, disk, dbCall>>
clsVars == <<clsPc, clsIn, clsI, clsResults, clsLast, clsCalls>>
trVars == <<trCall>>
sinkVars == <<files, sinkClock, sinkSeq, sinkLog, sinkCall>>
runVars == <<cache, clock, runPc, run, runs>>
rssVars == <<rssPc, rss>>
crashVars == <<crash>>
thrVars == <<shared, wall, thread, lastSet>>
cfgVars == <<cfgFile, config, cfgCall>>
schedVars == <<schedPc, sched>>
normVars == <<norm>>
extVars == <<query, sync, arxiv>>
vars == <<dbVars, clsVars, trVars, sinkVars, runVars, rssVars, crashVars,
          thrVars, cfgVars, schedVars, normVars, extVars>>

\* what the operations of one component leave alone
exceptDB == <<clsVars, trVars, sinkVars, runVars, rssVars, crashVars,
    thrVars, cfgVars, schedVars, normVars, extVars>>
exceptCls == <<dbVars, trVars, sinkVars, runVars, rssVars, crashVars,
    thrVars, cfgVars, schedVars, normVars, extVars>>
exceptTr == <<dbVars, clsVars, sinkVars, runVars, rssVars, crashVars,
    thrVars, cfgVars, schedVars, normVars, extVars>>
exceptSink == <<dbVars, clsVars, trVars, runVars, rssVars, crashVars,
    thrVars, cfgVars, schedVars, normVars, extVars>>
exceptRss == <<dbVars, clsVars, trVars, sinkVars, runVars, crashVars,
    thrVars, cfgVars, schedVars, normVars, extVars>>
exceptThr == <<dbVars, clsVars, trVars, sinkVars, runVars, rssVars, crashVars,
    cfgVars, schedVars, normVars, extVars>>
exceptCfg == <<dbVars, clsVars, trVars, sinkVars, runVars, rssVars, crashVars,
    thrVars, schedVars, normVars, extVars>>
exceptSched == <<dbVars, clsVars, trVars, sinkVars, runVars, rssVars, crashVars,
    thrVars, cfgVars, normVars, extVars>>
exceptNorm == <<dbVars, clsVars, trVars, sinkVars, runVars, rssVars, crashVars,
    thrVars, cfgVars, schedVars, extVars>>
exceptCrash == <<clsVars, trVars, sinkVars, runVars, rssVars,
    thrVars, cfgVars, schedVars, normVars, extVars>>

----------------------------------------------------------------------------
(* Bounds of the model *)

MaxTime == 2
MaxTitles == 2      \* titles handed to one classify_titles_batch call
MaxBatch == 2       \* largest batch_size argument
MaxResp == 2        \* objects in one LLM response
MaxTextLen == 400   \* longest title, summary or translation
MaxStamp == 1       \* seconds the output manager's clock passes through
MaxWrites == 3      \* file writes of the output manager
MaxEntries == 2     \* entries of one RSS feed, after feed.entries[:limit]
MaxRuns == 2        \* pipeline invocations
TranslateBatch == 1 \* stories per translation batch (BATCH_SIZE, scaled down)

----------------------------------------------------------------------------
(* Values *)

\* Python None for an optional timestamp
NoneT == 0 - 1
\* a whitelisted_until string that datetime.fromisoformat / the naive-aware
\* comparison rejects
BadTime == 0 - 2

WHITELIST_DAYS == 30

Statuses == {"crawled", "ai_screened", "whitelisted", "expired"}

\* repo dicts handed to the store: html_url is the key
Urls == {"u1", "u2"}
Repos == [html_url : Urls, stargazers_count : {10}]

\* (ai_score, ai_reason) pairs used as inputs
Verdicts == {[ai_score |-> 0, ai_reason |-> ""], [ai_score |-> 8, ai_reason |-> "r"]}

\* the record that stands for "no record under this key"
NoRec == [status |-> "absent", whitelisted_until |-> NoneT, ai_score |-> 0,
          ai_reason |-> "", last_screened_at |-> NoneT, last_seen |-> NoneT,
          stargazers_count |-> 0]

NoCall == [op |-> "none", key |-> "", status |-> "", ret |-> FALSE,
           raised |-> "none", pre |-> NoRec, t |-> 0]

----------------------------------------------------------------------------
(* Idle values: what a component's variables hold while it is not in use *)

NoResponse == [kind |-> "none", shape |-> "none", objs |-> <<>>]

NoBatch == [batch |-> <<>>, resp |-> NoResponse, out |-> <<>>, attempts |-> 0]

\* what the LLM request of translate_text ends with: a failure (exception, no
\* choices) or a content string
TrFail == [ok |-> FALSE, text |-> <<>>]

NoTrCall == [op |-> "none", title |-> <<>>, summary |-> <<>>, configured |-> FALSE,
             o_title |-> TrFail, o_summary |-> TrFail,
             sent |-> [title |-> FALSE, summary |-> FALSE],
             out |-> [title |-> <<>>, summary |-> <<>>]]

\* get_llm_config() gave nothing
NoLlm == [present |-> FALSE, enabled |-> FALSE, api_key |-> ""]

DBIdle == now = 0 /\ projects = <<>> /\ disk = <<>> /\ dbCall = NoCall

ClsIdle ==
    /\ clsPc = "idle"
    /\ clsIn = [titles |-> <<>>, batch_size |-> 1, configured |-> FALSE, llm |-> NoLlm]
    /\ clsI = 0
    /\ clsResults = <<>>
    /\ clsLast = NoBatch
    /\ clsCalls = 0

TrIdle == trCall = NoTrCall

Sources == {"hackernews", "github"}

NoFile == [source |-> "none", kind |-> "none", stamp |-> 0]

NoSinkCall == [op |-> "none", source |-> "none", items |-> <<>>,
               path |-> NoFile, wrote |-> FALSE, raised |-> "none"]

SinkIdle ==
    /\ files = <<>>
    /\ sinkClock = 0
    /\ sinkSeq = 0
    /\ sinkLog = [s \in Sources |-> <<>>]
    /\ sinkCall = NoSinkCall

\* cache.get found nothing (None); also the result of a call that raised
NoResult == [success |-> FALSE, source_type |-> "none", total_count |-> 0,
             fetched_at |-> 0, items |-> <<>>, error |-> ""]

NoEntry == [value |-> NoResult, expires_at |-> 0 - 1]

NoRun == [source |-> "none", limit |-> 0, entry |-> NoEntry, t0 |-> 0,
          stories |-> <<>>, calls |-> 0, outage |-> FALSE,
          titles |-> <<>>, todo |-> <<>>, ai_stories |-> <<>>,
          filtered_repos |-> <<>>, need_ai_screening |-> <<>>,
          existing_items |-> {}, file |-> <<>>,
          failure |-> "none", returned |-> FALSE, raised |-> FALSE,
          result |-> NoResult]

RunIdle ==
    /\ cache = <<>>
    /\ clock = 0
    /\ runPc = "idle"
    /\ run = NoRun
    /\ runs = 0

\* no feed fetched yet
NoFeed == [entries |-> <<>>, tz |-> 0, recent_days |-> 0,
           ai_filter_enabled |-> FALSE, translation_enabled |-> FALSE,
           items |-> <<>>, sent |-> <<>>, calls |-> 0, translated |-> FALSE]

RssIdle ==
    /\ rssPc = "idle"
    /\ rss = NoFeed

\* no crash happened
NoCrash == [phase |-> "none", torn |-> FALSE, prev |-> <<>>, next |-> <<>>]

CrashIdle == crash = NoCrash

\* Python None as a cached value or a return value
NoneV == 0

\* no entry under the key
NoSlot == [value |-> NoneV, expires_at |-> 0 - 1]

\* a thread that has not called the cache yet
NoOp == [op |-> "none", pc |-> "idle", key |-> "", value |-> NoneV, ttl |-> 0,
         entry |-> NoSlot, now |-> 0, expires_at |-> 0, size0 |-> 0,
         todo |-> {}, expired_keys |-> {}, ret |-> NoneV, raised |-> "none",
         t_check |-> 0, fresh |-> NoneV, calls |-> 0]

ThrIdle ==
    /\ shared = <<>>
    /\ wall = 0
    /\ thread = <<>>
    /\ lastSet = <<>>

\* ConfigManager._config before the first reload (None)
NoConfig == [version |-> 0, flat |-> {}, has_sources |-> FALSE, sources |-> {}]

\* no config.yaml
NoCfgFile == [exists |-> FALSE, parses |-> FALSE, version |-> 0, has_sources |-> FALSE,
              hackernews |-> "absent", rss |-> "absent", github |-> "absent",
              arxiv |-> "absent"]

NoCfgCall == [op |-> "none", pre |-> NoConfig, file |-> NoCfgFile, raised |-> "none"]

CfgIdle == cfgFile = NoCfgFile /\ config = NoConfig /\ cfgCall = NoCfgCall

\* the scheduler before start() or run_once()
NoSched == [mode |-> "none", jobs |-> <<>>, tick |-> 0, pending |-> <<>>,
            cur |-> 0, todo |-> <<>>, log |-> <<>>, n |-> 0]

SchedIdle == schedPc = "idle" /\ sched = NoSched

\* a saved item record with none of its fields set; a text is a sequence of
\* parts, <<>> the empty string; "absent" a key that is not in the dict
NoItemRec == [title |-> <<>>, full_name |-> <<>>, name |-> <<>>, summary |-> <<>>,
              description |-> <<>>, source_url |-> <<>>, stargazers_count |-> 0,
              score |-> 0, ai_score |-> 0, is_ai_project |-> "absent",
              updated_at |-> 0 - 1, status |-> "absent", last_seen |-> 0 - 1,
              topics |-> <<>>, tags |-> <<>>]

\* _normalize_existing_record was not called yet
NoNorm == [pc |-> "none", value |-> NoItemRec, t1 |-> 0, t2 |-> 0,
           first |-> NoItemRec, reloaded |-> NoItemRec, twice |-> NoItemRec]

NormIdle == norm = NoNorm

\* the search loop has not started
NoQuery == [pc |-> "idle", kinds |-> 0, langs |-> 0, kind |-> 0, lang |-> 0,
            all_repos |-> <<>>, log |-> <<>>]

QueryIdle == query = NoQuery

\* sync_rss was not called yet
NoSync == [op |-> "none", cached |-> FALSE, fetched |-> FALSE, raised |-> "none",
           wrote |-> FALSE]

SyncIdle == sync = NoSync

\* no arXiv search was started yet
NoArxiv == [pc |-> "idle", mode |-> "none", n |-> 0, started |-> 0, done |-> {}]

ArxivIdle == arxiv = NoArxiv

ExtIdle == QueryIdle /\ SyncIdle /\ ArxivIdle

IdleAll == DBIdle /\ ClsIdle /\ TrIdle /\ SinkIdle /\ RunIdle /\ RssIdle /\ CrashIdle

IdleButDB == ClsIdle /\ TrIdle /\ SinkIdle /\ RunIdle /\ RssIdle /\ CrashIdle
    /\ ThrIdle /\ CfgIdle /\ SchedIdle /\ NormIdle /\ ExtIdle
IdleButCls == DBIdle /\ TrIdle /\ SinkIdle /\ RunIdle /\ RssIdle /\ CrashIdle
    /\ ThrIdle /\ CfgIdle /\ SchedIdle /\ NormIdle /\ ExtIdle
IdleButTr == DBIdle /\ ClsIdle /\ SinkIdle /\ RunIdle /\ RssIdle /\ CrashIdle
    /\ ThrIdle /\ CfgIdle /\ SchedIdle /\ NormIdle /\ ExtIdle
IdleButSink == DBIdle /\ ClsIdle /\ TrIdle /\ RunIdle /\ RssIdle /\ CrashIdle
    /\ ThrIdle /\ CfgIdle /\ SchedIdle /\ NormIdle /\ ExtIdle
IdleButRss == DBIdle /\ ClsIdle /\ TrIdle /\ SinkIdle /\ RunIdle /\ CrashIdle
    /\ ThrIdle /\ CfgIdle /\ SchedIdle /\ NormIdle /\ ExtIdle

----------------------------------------------------------------------------
(* GitHubProjectDB *)

GenerateProjectId(repo) == repo.html_url

GetProject(project_id) ==
    IF project_id \in DOMAIN projects THEN projects[project_id] ELSE NoRec

\* status_hierarchy.get(s, 0)
StatusHierarchy(s) ==
    CASE s = "crawled" -> 0
      [] s = "ai_screened" -> 1
      [] s = "whitelisted" -> 2
      [] OTHER -> 0

\* project_data as built before the merge with an existing record;
\* status "whitelisted" never gets here (see AddProjectRaisesEarly)
ProjectData(repo, status, ai_score, ai_reason, t) ==
    [status |-> status,
     whitelisted_until |-> NoneT,
     ai_score |-> ai_score,
     ai_reason |-> ai_reason,
     last_screened_at |-> IF status = "ai_screened" THEN t ELSE NoneT,
     last_seen |-> t,
     stargazers_count |-> repo.stargazers_count]

\* a faulty variant of KeepExisting: every upsert overwrites the stored status
KeepExistingNever(existing_status, status) == FALSE

\* new_priority <= current_priority
KeepExisting(existing_status, status) ==
    StatusHierarchy(status) <= StatusHierarchy(existing_status)

\* the update of an existing record
MergeExisting(existing, data, status) ==
    IF KeepExisting(existing.status, status)
    THEN [data EXCEPT !.status = existing.status,
                      !.ai_score = existing.ai_score,
                      !.ai_reason = existing.ai_reason,
                      !.whitelisted_until =
                          IF existing.whitelisted_until # NoneT
                          THEN existing.whitelisted_until
                          ELSE data.whitelisted_until]
    ELSE data

\* now is a str (isoformat), so now + timedelta(days=30) raises TypeError
\* before anything is stored
AddProjectRaisesEarly(status) == status = "whitelisted"

Store(key, rec) ==
    [k \in DOMAIN projects \cup {key} |-> IF k = key THEN rec ELSE projects[k]]

\* add_project: on the path that stores, the record is saved and then
\* logger.debug raises AttributeError (Logger has no debug method)
AddProject(repo, status, ai_score, ai_reason) ==
    LET key == GenerateProjectId(repo)
        pre == GetProject(key)
        data == ProjectData(repo, status, ai_score, ai_reason, now)
        rec == IF key \in DOMAIN projects
               THEN MergeExisting(projects[key], data, status)
               ELSE data
    IN  IF AddProjectRaisesEarly(status)
        THEN /\ UNCHANGED <<projects, disk>>
             /\ dbCall' = [op |-> "add_project", key |-> key, status |-> status,
                           ai_score |-> ai_score, ai_reason |-> ai_reason,
                           ret |-> FALSE, raised |-> "TypeError", pre |-> pre,
                           t |-> now]
        ELSE /\ projects' = Store(key, rec)
             /\ disk' = projects'
             /\ dbCall' = [op |-> "add_project", key |-> key, status |-> status,
                           ai_score |-> ai_score, ai_reason |-> ai_reason,
                           ret |-> FALSE, raised |-> "AttributeError", pre |-> pre,
                           t |-> now]

MarkAsAiScreened(repo, ai_score, ai_reason) ==
    AddProject(repo, "ai_screened", ai_score, ai_reason)

MarkAsWhitelisted(repo, ai_score, ai_reason) ==
    AddProject(repo, "whitelisted", ai_score, ai_reason)

\* if whitelisted_until: (None and "" are falsy)
Truthy(t) == t # NoneT

\* datetime.fromisoformat(...) and the comparison with datetime.now() succeed
Parses(t) == t >= 0

\* a faulty variant of IsWhitelistedResult: the expiry instant still counts as valid
IsWhitelistedResultInclusive(p, t) ==
    /\ p.status = "whitelisted"
    /\ Truthy(p.whitelisted_until)
    /\ Parses(p.whitelisted_until)
    /\ t <= p.whitelisted_until

\* the value is_whitelisted returns for record p at time t
IsWhitelistedResult(p, t) ==
    /\ p.status = "whitelisted"
    /\ Truthy(p.whitelisted_until)
    /\ Parses(p.whitelisted_until)
    /\ t < p.whitelisted_until

\* a faulty variant of IsWhitelistedEffect: the expiry transition is forgotten
IsWhitelistedEffectNone(p, t) == p

\* the record is_whitelisted leaves behind
IsWhitelistedEffect(p, t) ==
    IF p.status = "whitelisted" /\ Truthy(p.whitelisted_until)
    THEN IF Parses(p.whitelisted_until)
         THEN IF t < p.whitelisted_until
              THEN p
              \* expired: status and whitelisted_until reset, saved; the
              \* logger.debug that follows raises inside the try, the handler
              \* sets status again and saves again
              ELSE [p EXCEPT !.status = "expired", !.whitelisted_until = NoneT]
         ELSE [p EXCEPT !.status = "expired"]
    ELSE p

IsWhitelisted(repo) ==
    LET key == GenerateProjectId(repo)
        pre == GetProject(key)
    IN  IF key \notin DOMAIN projects
        THEN /\ UNCHANGED <<projects, disk>>
             /\ dbCall' = [op |-> "is_whitelisted", key |-> key, status |-> "",
                           ret |-> FALSE, raised |-> "none", pre |-> pre, t |-> now]
        ELSE LET post == IsWhitelistedEffect(pre, now)
             IN  /\ projects' = Store(key, post)
                 \* _save_database runs only on the expiry paths
                 /\ disk' = IF post # pre THEN projects' ELSE disk
                 /\ dbCall' = [op |-> "is_whitelisted", key |-> key, status |-> "",
                               ret |-> IsWhitelistedResult(pre, now),
                               raised |-> "none", pre |-> pre, t |-> now]

----------------------------------------------------------------------------
(* LLM classifier: classify_titles_batch and _classify_single_batch.       *)
(* A title is represented by its id; ids are the strings str(id).          *)

DEFAULT_SCORE == 5

\* an id the request never carried
UnknownId == MaxTitles + 1

\* objects of a response array: with or without an "id" key
RespObjs ==
    {[has_id |-> TRUE, id |-> i, keep |-> k, score |-> IF k THEN 9 ELSE 1] :
        i \in 1..UnknownId, k \in BOOLEAN}
    \cup {[has_id |-> FALSE, id |-> 0, keep |-> TRUE, score |-> 9]}

RespSeqs == UNION {[1..n -> RespObjs] : n \in 0..MaxResp}

\* what one request can come back with.  kind: transport error, timeout,
\* HTTP status >= 400, a body without choices, or a body whose content is
\*   array     - a JSON array of objs
\*   truncated - such an array cut inside the object that follows objs
\*   lines     - no JSON document, the objs one per line
\*   scalar    - a JSON document that is not iterable
Failures == {"transport", "timeout", "http_error"}
Responses ==
    {[kind |-> k, shape |-> "none", objs |-> <<>>] : k \in Failures \cup {"no_choices"}}
    \cup {[kind |-> "ok", shape |-> "scalar", objs |-> <<>>]}
    \cup [kind : {"ok"}, shape : {"array", "truncated", "lines"}, objs : RespSeqs]

DefaultVerdict(item_id, reason) ==
    [id |-> item_id, score |-> DEFAULT_SCORE, keep |-> TRUE, reason |-> reason]

\* _create_default_results
CreateDefaultResults(batch) ==
    [i \in 1..Len(batch) |-> DefaultVerdict(batch[i], "failed")]

\* the validation loop: objects that are dicts with an "id"
RECURSIVE Validated(_)
Validated(objs) ==
    IF objs = <<>> THEN <<>>
    ELSE LET o == Head(objs)
         IN  (IF o.has_id
              THEN <<[id |-> o.id, score |-> o.score, keep |-> o.keep, reason |-> "llm"]>>
              ELSE <<>>) \o Validated(Tail(objs))

VerdictIds(vs) == {vs[i].id : i \in 1..Len(vs)}

\* default verdicts for the batch ids that validated_ids lacks, in batch order
RECURSIVE MissingDefaults(_, _, _)
MissingDefaults(batch, validated_ids, reason) ==
    IF batch = <<>> THEN <<>>
    ELSE (IF Head(batch) \notin validated_ids
          THEN <<DefaultVerdict(Head(batch), reason)>>
          ELSE <<>>) \o MissingDefaults(Tail(batch), validated_ids, reason)

\* a faulty variant of FillMissing: missing ids are not filled in
FillMissingNot(batch, validated) == validated

\* lines 257-273: only when fewer results than inputs came back
FillMissing(batch, validated) ==
    IF Len(validated) < Len(batch)
    THEN validated \o MissingDefaults(batch, VerdictIds(validated), "incomplete")
    ELSE validated

\* json.loads succeeds, directly or after the array is closed behind the last
\* complete object
PrimaryParses(resp) ==
    \/ resp.shape = "array"
    \/ resp.shape = "truncated" /\ Len(resp.objs) > 0

\* a faulty variant of OnRequestFailure: a failed request yields no verdicts
OnRequestFailureEmpty(batch) == <<>>

\* the except handlers of _classify_single_batch
OnRequestFailure(batch) == CreateDefaultResults(batch)

\* _classify_single_batch: it never raises
ClassifySingleBatch(batch, resp) ==
    IF resp.kind \in Failures THEN OnRequestFailure(batch)
    ELSE IF resp.kind = "no_choices" THEN CreateDefaultResults(batch)
    ELSE IF PrimaryParses(resp)
    THEN LET filled == FillMissing(batch, Validated(resp.objs))
         IN  IF Len(filled) = Len(batch) THEN filled ELSE CreateDefaultResults(batch)
    ELSE IF resp.shape = "scalar"
    \* TypeError in the validation loop, caught by except Exception
    THEN CreateDefaultResults(batch)
    \* JSONDecodeError: the objects are recovered by the fallback strategies
    ELSE LET validated == Validated(resp.objs)
             filled == validated \o MissingDefaults(batch, VerdictIds(validated), "partial")
         IN  IF validated # <<>> /\ Len(filled) = Len(batch)
             THEN filled
             ELSE CreateDefaultResults(batch)

\* titles[i:i + batch_size] (i counts from 0)
Slice(seq, i, n) ==
    [j \in 1..(IF Len(seq) - i < n THEN (IF Len(seq) - i < 0 THEN 0 ELSE Len(seq) - i) ELSE n)
        |-> seq[i + j]]

\* the LLM configurations: none, or enabled or not, with or without a key
LlmConfigs == {NoLlm} \cup [present : {TRUE}, enabled : BOOLEAN, api_key : {"", "key"}]

\* a faulty variant of LlmUsable: the API key is not looked at
LlmUsableKeyless(llm_config) == llm_config.present /\ llm_config.enabled

\* not (not llm_config or not llm_config.enabled or not llm_config.api_key)
LlmUsable(llm_config) ==
    llm_config.present /\ llm_config.enabled /\ llm_config.api_key # ""

\* the call: an empty list and an unconfigured LLM return at once
ClsCall(titles, batch_size, llm_config) ==
    LET configured == LlmUsable(llm_config) IN
    /\ clsIn' = [titles |-> titles, batch_size |-> batch_size,
                 configured |-> configured, llm |-> llm_config]
    /\ clsI' = 0
    /\ clsLast' = NoBatch
    /\ clsCalls' = 0
    /\ IF titles = <<>>
       THEN clsResults' = <<>> /\ clsPc' = "done"
       ELSE IF ~configured
       THEN /\ clsResults' = [i \in 1..Len(titles) |-> DefaultVerdict(titles[i], "unconfigured")]
            /\ clsPc' = "done"
       ELSE clsResults' = <<>> /\ clsPc' = "loop"

\* max_retries = 2
MAX_RETRIES == 2

\* _classify_single_batch lets an exception out to the retry loop: never, each
\* of its except handlers returns _create_default_results(batch)
SingleBatchRaises(resp) == FALSE

\* the passes of the retry loop "for retry in range(max_retries + 1)": it
\* breaks after the first call that returns
Attempts(resp) == IF SingleBatchRaises(resp) THEN MAX_RETRIES + 1 ELSE 1

\* a faulty variant of RetryLoop: a request failure and unparseable content
\* leave the loop as an exception
RetryLoopPropagates(batch, resp) ==
    [raised |-> resp.kind # "ok" \/ ~PrimaryParses(resp), out |-> <<>>]

\* the retry loop of one batch: what it leaves in batch_results, and whether
\* an exception leaves it; the last pass answers an exception with defaults
RetryLoop(batch, resp) ==
    [raised |-> FALSE,
     out |-> IF SingleBatchRaises(resp)
             THEN CreateDefaultResults(batch)
             ELSE ClassifySingleBatch(batch, resp)]

\* one iteration of the batch loop
ClsBatch(resp) ==
    /\ clsPc = "loop"
    /\ LET batch == Slice(clsIn.titles, clsI, clsIn.batch_size)
           loop == RetryLoop(batch, resp)
       IN  /\ clsResults' = clsResults \o loop.out
           /\ clsLast' = [batch |-> batch, resp |-> resp, out |-> loop.out,
                          attempts |-> Attempts(resp)]
           /\ clsI' = clsI + clsIn.batch_size
           /\ clsPc' = IF loop.raised THEN "raised"
                       ELSE IF clsI' < Len(clsIn.titles) THEN "loop" ELSE "done"
    /\ clsCalls' = clsCalls + Attempts(resp)
    /\ UNCHANGED clsIn

TitleLists == {[i \in 1..n |-> i] : n \in 0..MaxTitles}

InitCls ==
    /\ IdleButCls /\ ClsIdle

DoClsCall ==
    /\ clsPc = "idle"
    /\ \E titles \in TitleLists, bs \in 1..MaxBatch, llm_config \in LlmConfigs :
           ClsCall(titles, bs, llm_config)
    /\ UNCHANGED exceptCls

DoClsBatch ==
    /\ \E resp \in Responses : ClsBatch(resp)
    /\ UNCHANGED exceptCls

NextCls == DoClsCall \/ DoClsBatch

SpecCls == InitCls /\ [][NextCls]_vars

----------------------------------------------------------------------------
(* Translator: has_chinese, translate_text, translate_article_item, and    *)
(* models.truncate_summary.  A text is a sequence of characters: "a" a     *)
(* Latin letter, "c" a CJK ideograph, " " a space, "." a full stop.        *)

SUMMARY_MAX == 300
PRE_CLIP_MAX == 350

MkText(n, spaces, ch) == [i \in 1..n |-> IF i \in spaces THEN " " ELSE ch]

Ellipsis == <<".", ".", ".">>

HasChinese(text) == \E i \in 1..Len(text) : text[i] = "c"

\* text[:n]
Prefix(text, n) == SubSeq(text, 1, IF Len(text) < n THEN Len(text) ELSE n)

\* text.rsplit(" ", 1)[0]
RSplitHead(text) ==
    LET sp == {i \in 1..Len(text) : text[i] = " "}
    IN  IF sp = {} THEN text
        ELSE SubSeq(text, 1, (CHOOSE i \in sp : \A j \in sp : j <= i) - 1)

\* text[:n].rsplit(" ", 1)[0] + "..."
ClipAtWord(text, n) == RSplitHead(Prefix(text, n)) \o Ellipsis

\* text.strip()
RECURSIVE LStrip(_)
LStrip(text) ==
    IF text # <<>> /\ Head(text) = " " THEN LStrip(Tail(text)) ELSE text
RECURSIVE RStrip(_)
RStrip(text) ==
    IF text # <<>> /\ text[Len(text)] = " "
    THEN RStrip(SubSeq(text, 1, Len(text) - 1)) ELSE text
Strip(text) == LStrip(RStrip(text))

\* translate_text
TranslateText(text, configured, outcome) ==
    IF text = <<>> \/ Strip(text) = <<>> THEN text
    ELSE IF HasChinese(text) THEN text
    ELSE IF ~configured THEN text
    ELSE IF outcome.ok THEN Strip(outcome.text)
    ELSE text

\* x or y on strings
OrElse(x, y) == IF x # <<>> THEN x ELSE y

\* a faulty variant of FinalClip: "..." replaces the last three characters kept
FinalClipSafe(translated_summary) ==
    IF Len(translated_summary) > SUMMARY_MAX
    THEN RSplitHead(Prefix(translated_summary, SUMMARY_MAX - 3)) \o Ellipsis
    ELSE translated_summary

\* lines 167-169
FinalClip(translated_summary) ==
    IF Len(translated_summary) > SUMMARY_MAX
    THEN ClipAtWord(translated_summary, SUMMARY_MAX)
    ELSE translated_summary

\* translate_article_item
TranslateArticleItem(title, summary_in, configured, o_title, o_summary) ==
    LET title_has_chinese == HasChinese(title)
        summary_has_chinese == HasChinese(summary_in)
        s1 == IF Len(summary_in) > PRE_CLIP_MAX
              THEN ClipAtWord(summary_in, PRE_CLIP_MAX) ELSE summary_in
        summary == IF summary_has_chinese /\ Len(s1) > SUMMARY_MAX
                   THEN ClipAtWord(s1, SUMMARY_MAX) ELSE s1
        translated_title ==
            IF ~title_has_chinese /\ ~summary_has_chinese
            THEN TranslateText(title, configured, o_title)
            ELSE IF ~title_has_chinese
            THEN OrElse(TranslateText(title, configured, o_title), title)
            ELSE title
        translated_summary ==
            IF ~title_has_chinese /\ ~summary_has_chinese
            THEN TranslateText(summary, configured, o_summary)
            ELSE IF ~title_has_chinese THEN summary
            ELSE IF ~summary_has_chinese
            THEN OrElse(TranslateText(summary, configured, o_summary), summary)
            ELSE summary
    IN  [title |-> translated_title, summary |-> FinalClip(translated_summary)]

\* translate_text gets as far as the request to the LLM
SendsRequest(text, configured) ==
    /\ text # <<>> /\ Strip(text) # <<>>
    /\ ~HasChinese(text)
    /\ configured

\* the texts translate_article_item sends to the LLM: translate_text is
\* called for the title without a CJK character and for the (pre-clipped)
\* summary of a summary without one
TranslateRequests(title, summary_in, configured) ==
    LET s1 == IF Len(summary_in) > PRE_CLIP_MAX
              THEN ClipAtWord(summary_in, PRE_CLIP_MAX) ELSE summary_in
    IN  [title |-> ~HasChinese(title) /\ SendsRequest(title, configured),
         summary |-> ~HasChinese(summary_in) /\ SendsRequest(s1, configured)]

\* " ".join(text.split())
RECURSIVE CollapseSpaces(_)
CollapseSpaces(text) ==
    LET dbl == {i \in 1..(Len(text) - 1) : text[i] = " " /\ text[i + 1] = " "}
    IN  IF dbl = {} THEN text
        ELSE LET i == CHOOSE i \in dbl : \A j \in dbl : i <= j
             IN  CollapseSpaces(SubSeq(text, 1, i) \o SubSeq(text, i + 2, Len(text)))
NormalizeSpaces(text) == Strip(CollapseSpaces(text))

\* models.truncate_summary
TruncateSummary(text_in, max_length) ==
    IF text_in = <<>> \/ Len(text_in) <= max_length THEN text_in
    ELSE LET text == NormalizeSpaces(text_in)
         IN  IF Len(text) <= max_length THEN text
             ELSE LET safe_length == max_length - 3
                      t1 == RSplitHead(Prefix(text, safe_length))
                      truncated == IF Len(t1) + 3 > max_length
                                   THEN Prefix(t1, max_length - 3) ELSE t1
                  IN  truncated \o Ellipsis

\* inputs: lengths around the two limits, a space at the places where the
\* word-boundary cut looks for one
SummaryLens == {0, 1, SUMMARY_MAX - 1, SUMMARY_MAX, SUMMARY_MAX + 1,
                PRE_CLIP_MAX, PRE_CLIP_MAX + 1, MaxTextLen}
SpacePlaces == {{}, {2}, {2, 3}, {SUMMARY_MAX - 2}, {SUMMARY_MAX}, {2, SUMMARY_MAX},
                {PRE_CLIP_MAX}}
Summaries == {MkText(n, sp, ch) : n \in SummaryLens, sp \in SpacePlaces, ch \in {"a", "c"}}
Titles == {<<>>, <<"a">>, <<"c">>}
Translations ==
    {TrFail} \cup
    {[ok |-> TRUE, text |-> MkText(n, sp, "c")] :
        n \in {0, SUMMARY_MAX, SUMMARY_MAX + 1, MaxTextLen}, sp \in {{}, {SUMMARY_MAX - 2}}}

InitTr ==
    /\ IdleButTr /\ TrIdle

DoTranslateArticleItem ==
    /\ trCall = NoTrCall
    /\ \E title \in Titles, summary \in Summaries, configured \in BOOLEAN,
          o_title \in {TrFail, [ok |-> TRUE, text |-> <<"c">>]},
          o_summary \in Translations :
           trCall' = [op |-> "translate_article_item", title |-> title,
                      summary |-> summary, configured |-> configured,
                      o_title |-> o_title, o_summary |-> o_summary,
                      sent |-> TranslateRequests(title, summary, configured),
                      out |-> TranslateArticleItem(title, summary, configured,
                                                   o_title, o_summary)]
    /\ UNCHANGED exceptTr

\* translate_article_item is applied to the pair it returned, under the same
\* configuration and with the same LLM answers
DoTranslateAgain ==
    /\ trCall.op = "translate_article_item"
    /\ trCall' = [trCall EXCEPT
           !.op = "translate_article_item_again",
           !.title = trCall.out.title,
           !.summary = trCall.out.summary,
           !.sent = TranslateRequests(trCall.out.title, trCall.out.summary,
                                      trCall.configured),
           !.out = TranslateArticleItem(trCall.out.title, trCall.out.summary,
                                        trCall.configured, trCall.o_title,
                                        trCall.o_summary)]
    /\ UNCHANGED exceptTr

DoTruncateSummary ==
    /\ trCall = NoTrCall
    /\ \E summary \in Summaries :
           trCall' = [op |-> "truncate_summary", title |-> <<>>,
                      summary |-> summary, configured |-> FALSE,
                      o_title |-> TrFail, o_summary |-> TrFail,
                      sent |-> [title |-> FALSE, summary |-> FALSE],
                      out |-> [title |-> <<>>,
                               summary |-> TruncateSummary(summary, SUMMARY_MAX)]]
    /\ UNCHANGED exceptTr

NextTr == DoTranslateArticleItem \/ DoTranslateAgain \/ DoTruncateSummary

SpecTr == InitTr /\ [][NextTr]_vars

----------------------------------------------------------------------------
(* OutputManager: the files of today's output directory.  A file name is   *)
(* {source}_{YYYYmmdd_HHMMSS}.json (kind "timestamp", stamp the second) or *)
(* {source}_{YYYY-mm-dd}.json (kind "date").  The content of a file is a   *)
(* JSON object with an "items" list (shape "dict") or a JSON list of       *)
(* results (shape "list"); items holds the items stored in it.             *)

Items == {"i1", "i2"}

\* the items argument / the items of a FetchResult
Batches == {<<>>} \cup {<<i>> : i \in Items}

TimestampName(source, t) == [source |-> source, kind |-> "timestamp", stamp |-> t]

DateName(source) == [source |-> source, kind |-> "date", stamp |-> 0]

\* daily_dir.glob(f"{source_type}_*.json")
Glob(source) == {f \in DOMAIN files : f.source = source}

\* existing_files.sort(key=st_mtime, reverse=True)[0]
Latest(fs) == CHOOSE f \in fs : \A g \in fs : files[g].mtime <= files[f].mtime

\* lines 168-178: the file append_items_batch writes to
AppendTarget(source) ==
    IF Glob(source) # {} THEN Latest(Glob(source))
    ELSE TimestampName(source, sinkClock)

\* _write_json
WriteJson(path, shape, items) ==
    /\ files' = (path :> [mtime |-> sinkSeq + 1, shape |-> shape, items |-> items])
                    @@ files
    /\ sinkSeq' = sinkSeq + 1

\* _auto_sync_to_notion: the import of ..utils.notion_sync fails, the handler
\* runs, and logger is not a name of the module
AutoSyncRaises == "NameError"

\* append_items_batch: a list-shaped file has no "items" key (TypeError
\* before the write); after the write, a non-empty batch reaches the import
\* of ..models, which fails
AppendItemsBatch(source, items) ==
    LET file_path == AppendTarget(source)
        existing_items == IF file_path \in DOMAIN files
                          THEN files[file_path].items ELSE <<>>
        is_list == file_path \in DOMAIN files /\ files[file_path].shape = "list"
    IN  IF is_list
        THEN /\ UNCHANGED <<files, sinkSeq, sinkLog>>
             /\ sinkCall' = [op |-> "append_items_batch", source |-> source,
                             items |-> items, path |-> file_path,
                             wrote |-> FALSE, raised |-> "TypeError"]
        ELSE /\ WriteJson(file_path, "dict", existing_items \o items)
             /\ sinkLog' = [sinkLog EXCEPT ![source] = @ \o items]
             /\ sinkCall' = [op |-> "append_items_batch", source |-> source,
                             items |-> items, path |-> file_path,
                             wrote |-> TRUE,
                             raised |-> IF items # <<>> THEN "ImportError"
                                        ELSE "none"]

\* save_result(result) with the default file name
SaveResult(source, items) ==
    LET daily_file == TimestampName(source, sinkClock)
    IN  /\ WriteJson(daily_file, "dict", items)
        /\ UNCHANGED sinkLog
        /\ sinkCall' = [op |-> "save_result", source |-> source,
                        items |-> items, path |-> daily_file,
                        wrote |-> TRUE, raised |-> AutoSyncRaises]

\* save_incremental(result, append)
SaveIncremental(source, items, append) ==
    LET file_path == DateName(source)
        existing_items == IF append /\ file_path \in DOMAIN files
                          THEN files[file_path].items ELSE <<>>
    IN  /\ WriteJson(file_path, "list", existing_items \o items)
        /\ UNCHANGED sinkLog
        /\ sinkCall' = [op |-> "save_incremental", source |-> source,
                        items |-> items, path |-> file_path,
                        wrote |-> TRUE, raised |-> AutoSyncRaises]

InitSink ==
    /\ IdleButSink /\ SinkIdle

SinkTick ==
    /\ sinkClock < MaxStamp
    /\ sinkClock' = sinkClock + 1
    /\ UNCHANGED <<files, sinkSeq, sinkLog, sinkCall>>
    /\ UNCHANGED exceptSink

DoAppendItemsBatch ==
    /\ sinkSeq < MaxWrites
    /\ \E source \in Sources, items \in Batches : AppendItemsBatch(source, items)
    /\ UNCHANGED sinkClock
    /\ UNCHANGED exceptSink

DoSaveResult ==
    /\ sinkSeq < MaxWrites
    /\ \E source \in Sources, items \in Batches : SaveResult(source, items)
    /\ UNCHANGED sinkClock
    /\ UNCHANGED exceptSink

DoSaveIncremental ==
    /\ sinkSeq < MaxWrites
    /\ \E source \in Sources, items \in Batches, append \in BOOLEAN :
           SaveIncremental(source, items, append)
    /\ UNCHANGED sinkClock
    /\ UNCHANGED exceptSink

NextSink == SinkTick \/ DoAppendItemsBatch \/ DoSaveResult \/ DoSaveIncremental

SpecSink == InitSink /\ [][NextSink]_vars

----------------------------------------------------------------------------
(* The store driven by arbitrary callers *)

\* records a loaded github_projects.json may hold
InitRecords ==
    {[status |-> "crawled", whitelisted_until |-> NoneT, ai_score |-> 0,
      ai_reason |-> "", last_screened_at |-> NoneT, last_seen |-> 0,
      stargazers_count |-> 10],
     [status |-> "ai_screened", whitelisted_until |-> NoneT, ai_score |-> 8,
      ai_reason |-> "r", last_screened_at |-> 0, last_seen |-> 0,
      stargazers_count |-> 10]}
    \cup
    {[status |-> "whitelisted", whitelisted_until |-> u, ai_score |-> 8,
      ai_reason |-> "r", last_screened_at |-> 0, last_seen |-> 0,
      stargazers_count |-> 10] : u \in {NoneT, BadTime, 1, WHITELIST_DAYS}}

InitStores == UNION {[D -> InitRecords] : D \in SUBSET Urls}

InitDB ==
    /\ now = 0
    /\ projects \in InitStores
    /\ disk = projects
    /\ dbCall = NoCall
    /\ IdleButDB

Tick ==
    /\ now < MaxTime
    /\ now' = now + 1
    /\ UNCHANGED <<projects, disk, dbCall>>
    /\ UNCHANGED exceptDB

DoAddProject ==
    /\ \E repo \in Repos, v \in Verdicts, status \in {"crawled", "ai_screened"} :
           AddProject(repo, status, v.ai_score, v.ai_reason)
    /\ UNCHANGED now
    /\ UNCHANGED exceptDB

DoMarkAsAiScreened ==
    /\ \E repo \in Repos, v \in Verdicts : MarkAsAiScreened(repo, v.ai_score, v.ai_reason)
    /\ UNCHANGED now
    /\ UNCHANGED exceptDB

DoMarkAsWhitelisted ==
    /\ \E repo \in Repos, v \in Verdicts : MarkAsWhitelisted(repo, v.ai_score, v.ai_reason)
    /\ UNCHANGED now
    /\ UNCHANGED exceptDB

DoIsWhitelisted ==
    /\ \E repo \in Repos : IsWhitelisted(repo)
    /\ UNCHANGED now
    /\ UNCHANGED exceptDB

NextDB == Tick \/ DoAddProject \/ DoMarkAsAiScreened \/ DoMarkAsWhitelisted \/ DoIsWhitelisted

SpecDB == InitDB /\ [][NextDB]_vars

----------------------------------------------------------------------------
(* The pipelines fetch_ai_news / _fetch_hackernews and                     *)
(* fetch_github_trending, and the fetch cache they share (SimpleCache).    *)
(* A Hacker News story is its id; a repo is a record of Repos.             *)

HN_CACHE_TTL == 300

GH_CACHE_TTL == 3600

\* the limit argument, part of the cache key
Limits == {10, 20}

\* the instants the clock passes through: around the two TTLs
ClockTimes == {0, HN_CACHE_TTL, HN_CACHE_TTL + 1, GH_CACHE_TTL, GH_CACHE_TTL + 1}

\* a faulty variant of CacheGet: every lookup misses
CacheGetNever(key) == NoResult

\* SimpleCache.get: None for a missing or an expired entry
CacheGet(key) ==
    IF key \notin DOMAIN cache THEN NoResult
    ELSE IF clock > cache[key].expires_at THEN NoResult
    ELSE cache[key].value

\* SimpleCache.get deletes the expired entry it finds
CacheAfterGet(key) ==
    IF key \in DOMAIN cache /\ clock > cache[key].expires_at
    THEN [k \in DOMAIN cache \ {key} |-> cache[k]]
    ELSE cache

\* SimpleCache.set on cache c
CacheSet(c, key, value, ttl) ==
    (key :> [value |-> value, expires_at |-> clock + ttl]) @@ c

FetchResult(success, source_type, items, error) ==
    [success |-> success, source_type |-> source_type, total_count |-> Len(items),
     fetched_at |-> clock, items |-> items, error |-> error]

\* the local state of an invocation that starts now
StartRun(source, limit, key) ==
    [NoRun EXCEPT !.source = source, !.limit = limit, !.t0 = clock,
                  !.entry = IF key \in DOMAIN cache THEN cache[key] ELSE NoEntry]

\* the invocation is over: its working lists are gone, what it was called
\* with and what it did stay on record
Left(r) == [r EXCEPT !.stories = <<>>, !.todo = <<>>, !.ai_stories = <<>>]

\* return result
Returned(r, result) ==
    [Left(r) EXCEPT !.returned = TRUE, !.raised = FALSE, !.result = result]

\* a faulty variant of OnRunException: the exception leaves the pipeline
OnRunExceptionPropagates(r, exc) ==
    [Left(r) EXCEPT !.failure = exc, !.returned = TRUE, !.raised = TRUE,
                    !.result = NoResult]

\* except Exception as e: return FetchResult(success=False, ..., error=f"Error: {e}")
OnRunException(r, exc) ==
    [Left(r) EXCEPT !.failure = exc, !.returned = TRUE, !.raised = FALSE,
                    !.result = FetchResult(FALSE, r.source, <<>>, exc)]

\* classify_titles_batch(titles, batch_size=25) for a list of one batch
ClassifyTitlesBatch(titles, configured, resp) ==
    IF titles = <<>> THEN <<>>
    ELSE IF ~configured
    THEN [i \in 1..Len(titles) |-> DefaultVerdict(titles[i], "unconfigured")]
    ELSE ClassifySingleBatch(titles, resp)

\* the responses the pipeline runs are checked with: at most one object
RunResponses == {r \in Responses : Len(r.objs) <= 1}

\* the requests that call sends
LlmRequests(titles, configured) == IF titles # <<>> /\ configured THEN 1 ELSE 0

\* every attempt of the request failed: no usable response
Outage(resp) == resp.kind \in Failures \cup {"no_choices"}

\* result_map = {r["id"]: r for r in classification_results}
InResultMap(results, id) == \E i \in 1..Len(results) : results[i].id = id

ResultMapGet(results, id) ==
    results[CHOOSE i \in 1..Len(results) :
                /\ results[i].id = id
                /\ \A j \in 1..Len(results) : results[j].id = id => j <= i]

\* the titles of the stories the adapter fetched: story i has title kind
\* stories[i]
TitleKinds == {"empty", "short", "long"}

TitleText(kind) ==
    CASE kind = "empty" -> <<>>
      [] kind = "short" -> <<"a">>
      [] OTHER -> MkText(SUMMARY_MAX + 1, {}, "a")

StorySeqs == UNION {[1..n -> TitleKinds] : n \in 0..MaxTitles}

\* what the Hacker News API calls end with: no list could be fetched, an item
\* body is not JSON (resp.json() raises), or the stories of type "story"
HnAdapterOutcomes ==
    {[kind |-> k, stories |-> <<>>] : k \in {"lists_failed", "json_error"}}
    \cup [kind : {"ok"}, stories : StorySeqs]

\* title_batch: the ids of the stories with a non-empty title
TitleBatch(stories) ==
    SelectSeq([i \in 1..Len(stories) |-> i], LAMBDA i : stories[i] # "empty")

\* filtered_story_data
FilteredStoryData(title_batch, stories, results) ==
    LET kept == SelectSeq(title_batch,
                          LAMBDA id : /\ InResultMap(results, id)
                                      /\ ResultMapGet(results, id).keep)
    IN  [i \in 1..Len(kept) |->
            [id |-> kept[i], title |-> stories[kept[i]],
             ai_score |-> ResultMapGet(results, kept[i]).score]]

\* story.get("score", 0)
StoryPoints(id) == id

\* ai_stories.sort(key=(ai_score, score), reverse=True)
SortsBefore(a, b) ==
    \/ a.ai_score > b.ai_score
    \/ a.ai_score = b.ai_score /\ a.points > b.points

RECURSIVE SortStories(_)
SortStories(s) ==
    IF s = <<>> THEN <<>>
    ELSE LET sorted == SortStories(SubSeq(s, 1, Len(s) - 1))
             x == s[Len(s)]
             k == Cardinality({i \in 1..Len(sorted) : ~SortsBefore(x, sorted[i])})
         IN  SubSeq(sorted, 1, k) \o <<x>> \o SubSeq(sorted, k + 1, Len(sorted))

\* _fetch_hackernews, lines 117-125: the cache lookup
HnStart(limit) ==
    LET key == <<"hackernews", limit>>
        cached == CacheGet(key)
        r0 == StartRun("hackernews", limit, key)
    IN  /\ cache' = CacheAfterGet(key)
        /\ runs' = runs + 1
        /\ IF cached # NoResult
           THEN run' = Returned(r0, cached) /\ runPc' = "idle"
           ELSE run' = r0 /\ runPc' = "fetch"

\* lines 137-210: the adapter calls
HnFetch(adapter) ==
    IF adapter.kind = "lists_failed"
    THEN /\ run' = Returned([run EXCEPT !.failure = "lists_failed"],
                            FetchResult(FALSE, "hackernews", <<>>, "no story list"))
         /\ runPc' = "idle"
    ELSE IF adapter.kind = "json_error"
    THEN run' = OnRunException(run, "JSONDecodeError") /\ runPc' = "idle"
    ELSE IF adapter.stories = <<>>
    THEN /\ run' = Returned([run EXCEPT !.failure = "no_details"],
                            FetchResult(FALSE, "hackernews", <<>>, "no story details"))
         /\ runPc' = "idle"
    ELSE run' = [run EXCEPT !.stories = adapter.stories] /\ runPc' = "classify"

\* lines 212-246: classification and the selection of the kept stories
HnClassify(configured, resp) ==
    LET title_batch == TitleBatch(run.stories)
        results == ClassifyTitlesBatch(title_batch, configured, resp)
    IN  /\ run' = [run EXCEPT
                      !.calls = LlmRequests(title_batch, configured),
                      !.outage = LlmRequests(title_batch, configured) > 0
                                 /\ Outage(resp),
                      !.titles = title_batch,
                      !.todo = FilteredStoryData(title_batch, run.stories, results)]
        /\ runPc' = "batches"

\* what translate_text's request ends with, per story of a batch
TrOutcomes == {TrFail, [ok |-> TRUE, text |-> <<"c">>]}

\* the ArticleItem of a kept story
Article(story) ==
    [id |-> story.id, ai_score |-> story.ai_score, points |-> StoryPoints(story.id)]

\* translate_article_item(title, summary) on a story whose summary is its
\* title: the summary that comes back, per title kind and translator outcome
TranslatedSummary ==
    [kind \in TitleKinds, tr_configured \in BOOLEAN, out \in TrOutcomes |->
        TranslateArticleItem(TitleText(kind), TitleText(kind), tr_configured,
                             out, out).summary]

\* one pass of the batch loop: translation, ArticleItem construction (the
\* summary field has max_length=300) and the incremental save, whose
\* exceptions the loop swallows
HnBatch(translation_enabled, tr_configured, outs) ==
    LET batch == Slice(run.todo, 0, TranslateBatch)
        rest == Slice(run.todo, Len(batch), Len(run.todo))
        summary(i) ==
            IF translation_enabled
            THEN TranslatedSummary[batch[i].title, tr_configured, outs[i]]
            ELSE TitleText(batch[i].title)
        batch_items == [i \in 1..Len(batch) |-> Article(batch[i])]
    IN  IF \E i \in 1..Len(batch) : Len(summary(i)) > SUMMARY_MAX
        THEN /\ run' = OnRunException(run, "ValidationError")
             /\ runPc' = "idle"
             /\ UNCHANGED <<files, sinkSeq, sinkLog, sinkCall>>
        ELSE /\ AppendItemsBatch("hackernews", batch_items)
             /\ run' = [run EXCEPT !.todo = rest,
                                   !.ai_stories = @ \o batch_items]
             /\ runPc' = "batches"

\* after the loop: sort, build the result, cache it for 300 seconds, return
HnFinish ==
    LET result == FetchResult(TRUE, "hackernews", SortStories(run.ai_stories), "")
    IN  /\ cache' = CacheSet(cache, <<"hackernews", run.limit>>, result, HN_CACHE_TTL)
        /\ run' = Returned(run, result)
        /\ runPc' = "idle"

\* _normalize_existing_record: the status and scheduling fields are removed
NormalizeExistingRecord(value) ==
    [value EXCEPT !.status = "none", !.whitelisted_until = NoneT,
                  !.last_screened_at = NoneT, !.last_seen = NoneT]

\* _save_github_repos_to_file(repos, is_ai_project_map) on file content file,
\* for repos that carry no _ai_score
SaveGithubReposToFile(file, repos) ==
    LET urls == {repos[i].html_url : i \in 1..Len(repos)}
        repo(u) == repos[CHOOSE i \in 1..Len(repos) :
                            /\ repos[i].html_url = u
                            /\ \A j \in 1..Len(repos) : repos[j].html_url = u => j <= i]
    IN  [u \in DOMAIN file \cup urls |->
            IF u \notin urls THEN NormalizeExistingRecord(file[u])
            ELSE IF u \in DOMAIN file
            THEN [NormalizeExistingRecord(file[u]) EXCEPT
                     !.ai_score = 0,
                     !.stargazers_count = repo(u).stargazers_count]
            ELSE [NoRec EXCEPT !.status = "none",
                               !.stargazers_count = repo(u).stargazers_count]]

\* the item of an existing repo, with the star count just fetched
ExistingItem(repo) == [url |-> repo.html_url, points |-> repo.stargazers_count]

RepoSeqs ==
    {<<>>} \cup {<<r>> : r \in Repos}
    \cup {<<p[1], p[2]>> : p \in {q \in Repos \X Repos : q[1] # q[2]}}

\* fetch_github_trending.  existing_items is what _load_existing_github_items
\* recovers from output/github/*.json; the invocation keeps it on record
\* together with the content of github_projects.json it started from.  The
\* store loops end at the first
\* store call or logger.debug they reach, so the classifier and the
\* translator are never called.
GhRun(limit, ai_filter_enabled, all_repos, existing_items) ==
    LET key == <<"github", limit>>
        cached == CacheGet(key)
        r0 == [StartRun("github", limit, key) EXCEPT
                  !.existing_items = existing_items, !.file = disk]
        existing_repos == SelectSeq(all_repos, LAMBDA r : r.html_url \in existing_items)
        new_repos == SelectSeq(all_repos, LAMBDA r : r.html_url \notin existing_items)
        known == SelectSeq(existing_repos,
                           LAMBDA r : GenerateProjectId(r) \in DOMAIN projects)
    IN  /\ runs' = runs + 1
        /\ runPc' = "idle"
        /\ IF cached # NoResult
           THEN /\ run' = Returned(r0, cached)
                /\ cache' = CacheAfterGet(key)
                /\ UNCHANGED <<projects, disk, dbCall>>
           ELSE IF all_repos = <<>>
           THEN /\ run' = Returned([r0 EXCEPT !.failure = "no_repos"],
                                   FetchResult(FALSE, "github", <<>>, "no repos"))
                /\ cache' = CacheAfterGet(key)
                /\ UNCHANGED <<projects, disk, dbCall>>
           ELSE IF known # <<>>
           \* lines 686-694: add_project with the stored status
           THEN LET p == GetProject(GenerateProjectId(Head(known)))
                IN  /\ AddProject(Head(known), p.status, p.ai_score, p.ai_reason)
                    /\ run' = OnRunException(r0, dbCall'.raised)
                    /\ cache' = CacheAfterGet(key)
           ELSE IF ai_filter_enabled /\ new_repos # <<>>
           \* lines 709-744, first pass of the loop
           THEN LET repo == Head(new_repos)
                    p == GetProject(GenerateProjectId(repo))
                    \* lines 727-732: the stored verdict is reused, then
                    \* logger.debug raises
                    reused == IF p.status = "ai_screened"
                              THEN <<[html_url |-> repo.html_url,
                                      ai_score |-> p.ai_score,
                                      ai_reason |-> p.ai_reason]>>
                              ELSE <<>>
                    \* lines 737-739: the repo is queued for screening, then
                    \* logger.debug raises; line 742 raises before line 743
                    queued == IF \/ p.status \in {"crawled", "expired"}
                                 \/ p.status = "whitelisted" /\ ~dbCall'.ret
                              THEN <<repo>>
                              ELSE <<>>
                IN  /\ IF p = NoRec THEN AddProject(repo, "crawled", 0, "")
                       ELSE IF p.status = "whitelisted" THEN IsWhitelisted(repo)
                       ELSE UNCHANGED <<projects, disk, dbCall>>
                    /\ run' = OnRunException([r0 EXCEPT !.filtered_repos = reused,
                                                        !.need_ai_screening = queued],
                                             "AttributeError")
                    /\ cache' = CacheAfterGet(key)
           ELSE LET result == FetchResult(TRUE, "github",
                                  [i \in 1..Len(existing_repos) |->
                                      ExistingItem(existing_repos[i])], "")
                IN  /\ disk' = SaveGithubReposToFile(
                                   SaveGithubReposToFile(disk, new_repos),
                                   existing_repos \o new_repos)
                    /\ UNCHANGED <<projects, dbCall>>
                    /\ cache' = CacheSet(CacheAfterGet(key), key, result, GH_CACHE_TTL)
                    /\ run' = Returned(r0, result)

\* the stores the pipeline runs start from: empty, or one record that is
\* crawled, ai_screened or whitelisted
RunStores ==
    {<<>>} \cup {[u \in {"u1"} |-> r] :
                    r \in {q \in InitRecords :
                             q.whitelisted_until \in {NoneT, BadTime, WHITELIST_DAYS}}}

InitRun ==
    /\ now = 0
    /\ projects \in RunStores
    /\ disk = projects
    /\ dbCall = NoCall
    /\ ClsIdle /\ TrIdle /\ SinkIdle /\ RunIdle /\ RssIdle /\ CrashIdle
    /\ ThrIdle /\ CfgIdle /\ SchedIdle /\ NormIdle /\ ExtIdle

\* time passes between invocations; the clock starts with the first one
RunTick ==
    /\ runPc = "idle"
    /\ runs > 0
    /\ runs < MaxRuns
    /\ \E t \in ClockTimes : t > clock /\ clock' = t
    /\ UNCHANGED <<cache, runPc, run, runs>>
    /\ UNCHANGED <<dbVars, clsVars, trVars, sinkVars, rssVars, crashVars,
                 thrVars, cfgVars, schedVars, normVars, extVars>>

DoHnStart ==
    /\ runPc = "idle"
    /\ runs < MaxRuns
    /\ runs = 0 \/ run.source = "hackernews"
    /\ \E limit \in Limits : HnStart(limit)
    /\ UNCHANGED clock
    /\ UNCHANGED <<dbVars, clsVars, trVars, sinkVars, rssVars, crashVars,
                 thrVars, cfgVars, schedVars, normVars, extVars>>

DoHnFetch ==
    /\ runPc = "fetch"
    /\ \E adapter \in HnAdapterOutcomes : HnFetch(adapter)
    /\ UNCHANGED <<cache, clock, runs>>
    /\ UNCHANGED <<dbVars, clsVars, trVars, sinkVars, rssVars, crashVars,
                 thrVars, cfgVars, schedVars, normVars, extVars>>

DoHnClassify ==
    /\ runPc = "classify"
    /\ \E configured \in BOOLEAN, resp \in RunResponses :
           HnClassify(configured, resp)
    /\ UNCHANGED <<cache, clock, runs>>
    /\ UNCHANGED <<dbVars, clsVars, trVars, sinkVars, rssVars, crashVars,
                 thrVars, cfgVars, schedVars, normVars, extVars>>

DoHnBatch ==
    /\ runPc = "batches"
    /\ run.todo # <<>>
    /\ \E translation_enabled \in BOOLEAN, tr_configured \in BOOLEAN,
          outs \in [1..TranslateBatch -> TrOutcomes] :
           HnBatch(translation_enabled, tr_configured, outs)
    /\ UNCHANGED <<cache, clock, runs, sinkClock>>
    /\ UNCHANGED <<dbVars, clsVars, trVars, rssVars, crashVars,
                 thrVars, cfgVars, schedVars, normVars, extVars>>

DoHnFinish ==
    /\ runPc = "batches"
    /\ run.todo = <<>>
    /\ HnFinish
    /\ UNCHANGED <<clock, runs>>
    /\ UNCHANGED <<dbVars, clsVars, trVars, sinkVars, rssVars, crashVars,
                 thrVars, cfgVars, schedVars, normVars, extVars>>

DoGhRun ==
    /\ runPc = "idle"
    /\ runs < MaxRuns
    /\ runs = 0 \/ run.source = "github"
    /\ \E limit \in Limits, ai_filter_enabled \in BOOLEAN, all_repos \in RepoSeqs,
          existing_items \in SUBSET Urls :
           GhRun(limit, ai_filter_enabled, all_repos, existing_items)
    /\ UNCHANGED <<now, clock>>
    /\ UNCHANGED <<clsVars, trVars, sinkVars, rssVars, crashVars,
                 thrVars, cfgVars, schedVars, normVars, extVars>>

NextRun ==
    RunTick \/ DoHnStart \/ DoHnFetch \/ DoHnClassify \/ DoHnBatch \/ DoHnFinish
    \/ DoGhRun

SpecRun == InitRun /\ [][NextRun]_vars

----------------------------------------------------------------------------
(* The RSS pipeline: _fetch_single_feed (tools/rss_reader.py).  Instants are
   counted in hours. *)

HOURS_PER_DAY == 24

\* datetime.utcnow() at the time filter
UtcNow == 240

\* llm_cfg.recent_days: max(1, int(... or 7))
RecentDays == {1, 7}

\* the UTC offset of the machine's local time zone, in hours
TimeZones == {0 - 5, 0, 8}

\* cutoff_dt = datetime.utcnow() - timedelta(days=recent_days)
Cutoff(recent_days) == UtcNow - recent_days * HOURS_PER_DAY

\* item["published"]: absent, a string no parser accepts, a date with a UTC
\* offset (at is its instant in UTC), or a date without one (at is its wall
\* clock reading)
PubTimes == {Cutoff(1) - 1, Cutoff(1), Cutoff(7) - 1}

Published ==
    {[kind |-> k, at |-> 0] : k \in {"none", "unparseable"}}
    \cup [kind : {"aware", "naive"}, at : PubTimes]

EntrySeqs == UNION {[1..n -> Published] : n \in 0..MaxEntries}

\* pub_dt as the comparison sees it: an aware date is converted to the local
\* zone and its tzinfo is dropped (astimezone(tz=None).replace(tzinfo=None))
NaivePubDt(pub, tz) == IF pub.kind = "aware" THEN pub.at + tz ELSE pub.at

\* lines 291-322: the entry stays in filtered_by_time
TimeFilterKeeps(pub, tz, recent_days) ==
    IF pub.kind \in {"none", "unparseable"} THEN TRUE
    ELSE ~(NaivePubDt(pub, tz) < Cutoff(recent_days))

\* the item of entry i, before classification and translation
FeedItem(entries, i) ==
    [id |-> i, published |-> entries[i], ai_score |-> NoneT,
     summary |-> TitleText("short")]

\* lines 155-328: the request, the parse, the items and the time filter; a
\* failed request or parse leaves as RuntimeError
RssFetch(ok, entries, tz, recent_days, ai_filter_enabled, translation_enabled) ==
    LET items == [i \in 1..Len(entries) |-> FeedItem(entries, i)]
        filtered_by_time ==
            SelectSeq(items, LAMBDA it : TimeFilterKeeps(it.published, tz, recent_days))
    IN  /\ rss' = [NoFeed EXCEPT !.entries = entries, !.tz = tz,
                                 !.recent_days = recent_days,
                                 !.ai_filter_enabled = ai_filter_enabled,
                                 !.translation_enabled = translation_enabled,
                                 !.items = IF ok THEN filtered_by_time ELSE <<>>]
        /\ rssPc' = IF ok THEN "classify" ELSE "raised"

\* lines 330-368: the temporary id of an item is its index in items
RssClassify(configured, resp) ==
    IF rss.ai_filter_enabled /\ rss.items # <<>>
    THEN LET title_batch == [i \in 1..Len(rss.items) |-> i]
             results == ClassifyTitlesBatch(title_batch, configured, resp)
             kept == SelectSeq(title_batch,
                               LAMBDA id : /\ InResultMap(results, id)
                                           /\ ResultMapGet(results, id).keep)
         IN  /\ rss' = [rss EXCEPT
                           !.sent = rss.items,
                           !.calls = LlmRequests(title_batch, configured),
                           !.items = [i \in 1..Len(kept) |->
                                        [rss.items[kept[i]] EXCEPT
                                            !.ai_score = ResultMapGet(results, kept[i]).score]]]
             /\ rssPc' = "translate"
    ELSE rss' = rss /\ rssPc' = "translate"

\* lines 370-399: all items are translated at once, then the feed result is
\* returned; the output manager is not called
RssTranslate(tr_configured, outs) ==
    /\ rssPc' = "returned"
    /\ IF rss.items # <<>> /\ rss.translation_enabled
       THEN rss' = [rss EXCEPT
                       !.translated = TRUE,
                       !.items = [i \in 1..Len(rss.items) |->
                                    [rss.items[i] EXCEPT
                                        !.summary = TranslatedSummary[
                                            "short", tr_configured, outs[i]]]]]
       ELSE rss' = rss

InitRss ==
    /\ IdleButRss /\ RssIdle

DoRssFetch ==
    /\ rssPc = "idle"
    /\ \E ok \in BOOLEAN, entries \in EntrySeqs, tz \in TimeZones,
          recent_days \in RecentDays, ai_filter_enabled \in BOOLEAN,
          translation_enabled \in BOOLEAN :
           RssFetch(ok, entries, tz, recent_days, ai_filter_enabled,
                    translation_enabled)
    /\ UNCHANGED exceptRss

DoRssClassify ==
    /\ rssPc = "classify"
    /\ \E configured \in BOOLEAN, resp \in RunResponses :
           RssClassify(configured, resp)
    /\ UNCHANGED exceptRss

DoRssTranslate ==
    /\ rssPc = "translate"
    /\ \E tr_configured \in BOOLEAN, outs \in [1..MaxEntries -> TrOutcomes] :
           RssTranslate(tr_configured, outs)
    /\ UNCHANGED exceptRss

NextRss == DoRssFetch \/ DoRssClassify \/ DoRssTranslate

SpecRss == InitRss /\ [][NextRss]_vars

----------------------------------------------------------------------------
(* A crash of the process while _save_database writes the store file, and
   the load of the file by the next process. *)

\* the record add_project puts into self.projects
UpsertRecord(repo, status, ai_score, ai_reason) ==
    LET key == GenerateProjectId(repo)
        data == ProjectData(repo, status, ai_score, ai_reason, now)
    IN  IF key \in DOMAIN projects
        THEN MergeExisting(projects[key], data, status)
        ELSE data

\* where the process dies: before open(projects_file, 'w'), between the open
\* (which truncates the file) and the end of json.dump, or after the close
CrashPoints == {"before_open", "mid_write", "after_close"}

\* _save_database of the record set next, interrupted at point
CrashInSave(next, point) ==
    /\ crash.phase = "none"
    /\ crash' = [phase |-> "crashed", torn |-> point = "mid_write",
                 prev |-> disk, next |-> next]
    /\ projects' = next
    /\ disk' = IF point = "after_close" THEN next ELSE disk

\* _load_database: json.load of a truncated file raises and the handler
\* starts from an empty store
LoadDatabase == IF crash.torn THEN <<>> ELSE disk

InitCrash ==
    /\ now = 0
    /\ projects \in RunStores
    /\ disk = projects
    /\ dbCall = NoCall
    /\ crash = NoCrash
    /\ ClsIdle /\ TrIdle /\ SinkIdle /\ RunIdle /\ RssIdle
    /\ ThrIdle /\ CfgIdle /\ SchedIdle /\ NormIdle /\ ExtIdle

\* the store operations of a process that is alive
DoStoreOp ==
    /\ crash.phase = "none"
    /\ Tick \/ DoAddProject \/ DoIsWhitelisted

DoCrashInAddProject ==
    /\ \E repo \in Repos, v \in Verdicts, status \in {"crawled", "ai_screened"},
          point \in CrashPoints :
           CrashInSave(Store(GenerateProjectId(repo),
                             UpsertRecord(repo, status, v.ai_score, v.ai_reason)),
                       point)
    /\ UNCHANGED <<now, dbCall>>
    /\ UNCHANGED exceptCrash

\* the save of the expiry transition in is_whitelisted
DoCrashInExpiry ==
    /\ \E repo \in Repos, point \in CrashPoints :
           LET key == GenerateProjectId(repo)
           IN  /\ key \in DOMAIN projects
               /\ IsWhitelistedEffect(projects[key], now) # projects[key]
               /\ CrashInSave(Store(key, IsWhitelistedEffect(projects[key], now)),
                              point)
    /\ UNCHANGED <<now, dbCall>>
    /\ UNCHANGED exceptCrash

\* the next process constructs GitHubProjectDB
DoRestart ==
    /\ crash.phase = "crashed"
    /\ projects' = LoadDatabase
    /\ crash' = [crash EXCEPT !.phase = "reloaded"]
    /\ UNCHANGED <<now, disk, dbCall>>
    /\ UNCHANGED exceptCrash

NextCrash == DoStoreOp \/ DoCrashInAddProject \/ DoCrashInExpiry \/ DoRestart

SpecCrash == InitCrash /\ [][NextCrash]_vars

----------------------------------------------------------------------------
(* SimpleCache (utils/cache.py) statement by statement.  The class holds   *)
(* no lock, so the statements of two threads interleave freely.            *)

MaxWall == 2        \* seconds the threads' clock passes through
MaxCalls == 2       \* cache calls per thread

CacheKeys == {"k1", "k2"}
CacheValues == {1, 2}
Ttls == {0, 1}
CacheOps == {"get", "set", "delete", "cleanup_expired"}

\* a faulty variant of Expired: an entry outlives its expiry time by a second
ExpiredLate(entry, t) == t > entry.expires_at + 1

\* time.time() > entry.expires_at
Expired(entry, t) == t > entry.expires_at

\* del self._cache[key]
DictDel(d, key) == [k \in DOMAIN d \ {key} |-> d[k]]

\* self._cache[key] = entry
DictSet(d, key, entry) == (key :> entry) @@ d

\* the operation of thread i is over: it returned ret or raised
Finish(i, ret, raised) ==
    thread' = [thread EXCEPT ![i].pc = "idle", ![i].ret = ret, ![i].raised = raised]

\* a thread calls get, set, delete or cleanup_expired
ThreadCall(i) ==
    /\ thread[i].pc = "idle"
    /\ thread[i].calls < MaxCalls
    /\ \E op \in CacheOps, key \in CacheKeys, value \in CacheValues, ttl \in Ttls :
           thread' = [thread EXCEPT ![i] =
               [NoOp EXCEPT !.op = op,
                            !.key = IF op = "cleanup_expired" THEN "" ELSE key,
                            !.value = IF op = "set" THEN value ELSE NoneV,
                            !.ttl = IF op = "set" THEN ttl ELSE 0,
                            !.pc = op,
                            !.calls = thread[i].calls + 1]]
    /\ UNCHANGED <<shared, wall, lastSet>>

\* get: entry = self._cache.get(key); if entry is None: return None
GetLookup(i) ==
    /\ thread[i].pc = "get"
    /\ IF thread[i].key \in DOMAIN shared
       THEN thread' = [thread EXCEPT ![i].entry = shared[thread[i].key],
                                     ![i].pc = "get_check"]
       ELSE Finish(i, NoneV, "none")
    /\ UNCHANGED <<shared, wall, lastSet>>

\* get: if time.time() > entry.expires_at ... return entry.value
GetCheck(i) ==
    /\ thread[i].pc = "get_check"
    /\ IF Expired(thread[i].entry, wall)
       THEN thread' = [thread EXCEPT ![i].pc = "get_del", ![i].t_check = wall]
       ELSE thread' = [thread EXCEPT ![i].pc = "idle",
                                     ![i].ret = thread[i].entry.value,
                                     ![i].t_check = wall,
                                     ![i].fresh = lastSet[thread[i].key]]
    /\ UNCHANGED <<shared, wall, lastSet>>

\* get: del self._cache[key]; return None
GetDel(i) ==
    /\ thread[i].pc = "get_del"
    /\ IF thread[i].key \in DOMAIN shared
       THEN /\ shared' = DictDel(shared, thread[i].key)
            /\ Finish(i, NoneV, "none")
       ELSE /\ UNCHANGED shared
            /\ Finish(i, NoneV, "KeyError")
    /\ UNCHANGED <<wall, lastSet>>

\* set: expires_at = time.time() + ttl
SetTime(i) ==
    /\ thread[i].pc = "set"
    /\ thread' = [thread EXCEPT ![i].expires_at = wall + thread[i].ttl,
                                ![i].pc = "set_store"]
    /\ UNCHANGED <<shared, wall, lastSet>>

\* set: self._cache[key] = CacheEntry(value=value, expires_at=expires_at)
SetStore(i) ==
    /\ thread[i].pc = "set_store"
    /\ shared' = DictSet(shared, thread[i].key,
                         [value |-> thread[i].value, expires_at |-> thread[i].expires_at])
    /\ lastSet' = [lastSet EXCEPT ![thread[i].key] = thread[i].value]
    /\ Finish(i, NoneV, "none")
    /\ UNCHANGED wall

\* delete: if key in self._cache ... return False
DeleteTest(i) ==
    /\ thread[i].pc = "delete"
    /\ IF thread[i].key \in DOMAIN shared
       THEN thread' = [thread EXCEPT ![i].pc = "delete_del"]
       ELSE Finish(i, 0, "none")
    /\ UNCHANGED <<shared, wall, lastSet>>

\* delete: del self._cache[key]; return True
DeleteDel(i) ==
    /\ thread[i].pc = "delete_del"
    /\ IF thread[i].key \in DOMAIN shared
       THEN /\ shared' = DictDel(shared, thread[i].key)
            /\ Finish(i, 1, "none")
       ELSE /\ UNCHANGED shared
            /\ Finish(i, NoneV, "KeyError")
    /\ UNCHANGED <<wall, lastSet>>

\* cleanup_expired: now = time.time(), and the iterator over
\* self._cache.items() is created
CleanupTime(i) ==
    /\ thread[i].pc = "cleanup_expired"
    /\ thread' = [thread EXCEPT ![i].now = wall,
                                ![i].size0 = Cardinality(DOMAIN shared),
                                ![i].todo = CacheKeys,
                                ![i].pc = "cleanup_scan"]
    /\ UNCHANGED <<shared, wall, lastSet>>

\* cleanup_expired: one step of the list comprehension.  The dict iterator
\* raises RuntimeError when the dict changed size since it was created; the
\* order in which it visits the keys is left open
CleanupScan(i) ==
    /\ thread[i].pc = "cleanup_scan"
    /\ LET left == thread[i].todo \cap DOMAIN shared
       IN  IF Cardinality(DOMAIN shared) # thread[i].size0
           THEN Finish(i, NoneV, "RuntimeError")
           ELSE IF left = {}
           THEN thread' = [thread EXCEPT ![i].pc = "cleanup_del",
                                         ![i].todo = thread[i].expired_keys]
           ELSE \E k \in left :
                    thread' = [thread EXCEPT
                        ![i].todo = thread[i].todo \ {k},
                        ![i].expired_keys =
                            IF thread[i].now > shared[k].expires_at
                            THEN thread[i].expired_keys \cup {k}
                            ELSE thread[i].expired_keys]
    /\ UNCHANGED <<shared, wall, lastSet>>

\* cleanup_expired: for key in expired_keys: del self._cache[key];
\* return len(expired_keys)
CleanupDel(i) ==
    /\ thread[i].pc = "cleanup_del"
    /\ IF thread[i].todo = {}
       THEN /\ Finish(i, Cardinality(thread[i].expired_keys), "none")
            /\ UNCHANGED shared
       ELSE \E k \in thread[i].todo :
                IF k \in DOMAIN shared
                THEN /\ shared' = DictDel(shared, k)
                     /\ thread' = [thread EXCEPT ![i].todo = thread[i].todo \ {k}]
                ELSE /\ UNCHANGED shared
                     /\ Finish(i, NoneV, "KeyError")
    /\ UNCHANGED <<wall, lastSet>>

WallTick ==
    /\ wall < MaxWall
    /\ wall' = wall + 1
    /\ UNCHANGED <<shared, thread, lastSet>>

\* one caller
InitCache ==
    /\ shared = <<>>
    /\ wall = 0
    /\ thread = [i \in {1} |-> NoOp]
    /\ lastSet = [k \in CacheKeys |-> NoneV]
    /\ IdleAll /\ CfgIdle /\ SchedIdle /\ NormIdle /\ ExtIdle

\* two threads on the same cache
InitThreads ==
    /\ shared = <<>>
    /\ wall = 0
    /\ thread = [i \in {1, 2} |-> NoOp]
    /\ lastSet = [k \in CacheKeys |-> NoneV]
    /\ IdleAll /\ CfgIdle /\ SchedIdle /\ NormIdle /\ ExtIdle

DoWallTick == WallTick /\ UNCHANGED exceptThr
DoThreadCall == (\E i \in DOMAIN thread : ThreadCall(i)) /\ UNCHANGED exceptThr
DoGet ==
    /\ \E i \in DOMAIN thread : GetLookup(i) \/ GetCheck(i) \/ GetDel(i)
    /\ UNCHANGED exceptThr
DoSet ==
    /\ \E i \in DOMAIN thread : SetTime(i) \/ SetStore(i)
    /\ UNCHANGED exceptThr
DoDelete ==
    /\ \E i \in DOMAIN thread : DeleteTest(i) \/ DeleteDel(i)
    /\ UNCHANGED exceptThr
DoCleanupExpired ==
    /\ \E i \in DOMAIN thread : CleanupTime(i) \/ CleanupScan(i) \/ CleanupDel(i)
    /\ UNCHANGED exceptThr

NextCache == DoWallTick \/ DoThreadCall \/ DoGet \/ DoSet \/ DoDelete \/ DoCleanupExpired

SpecCache == InitCache /\ [][NextCache]_vars

SpecThreads == InitThreads /\ [][NextCache]_vars

----------------------------------------------------------------------------
(* ConfigManager.reload (config.py).  A section of config.yaml is "ok" (a  *)
(* mapping of the expected layout), "bad" (present with no value, so that  *)
(* yaml.safe_load gives None for it) or "absent".                          *)

MaxVersion == 2     \* versions of config.yaml

Sections == <<"hackernews", "rss", "github", "arxiv">>

\* the key under sources that a flat section is moved to
Group(section) == IF section = "hackernews" THEN "news" ELSE section

\* the files an editor can leave behind
CfgFiles ==
    {NoCfgFile} \cup
    {[NoCfgFile EXCEPT !.exists = TRUE, !.version = v] : v \in 1..MaxVersion} \cup
    [exists : {TRUE}, parses : {TRUE}, version : 1..MaxVersion,
     has_sources : BOOLEAN, hackernews : {"ok"},
     rss : {"absent", "ok", "bad"}, github : {"ok", "bad"},
     arxiv : {"ok", "bad"}]

Present(file) == {Sections[i] : i \in {j \in 1..4 : file[Sections[j]] # "absent"}}

\* yaml.safe_load(f) or {}
SafeLoad(file) ==
    [version |-> file.version, flat |-> Present(file),
     has_sources |-> file.has_sources, sources |-> {}]

\* the adaptation of one flat section: the section is popped first; a
\* section that is None then fails (None.pop, "max_results" in None)
AdaptSection(c, file, section) ==
    IF section \notin c.flat THEN [raised |-> "none", config |-> c]
    ELSE IF section = "hackernews" \/ file[section] = "ok"
    THEN [raised |-> "none",
          config |-> [c EXCEPT !.flat = c.flat \ {section},
                               !.sources = c.sources \cup {Group(section)}]]
    ELSE [raised |-> IF section = "github" THEN "TypeError" ELSE "AttributeError",
          config |-> [c EXCEPT !.flat = c.flat \ {section}]]

\* the sections in file order, up to the first that fails
RECURSIVE AdaptFrom(_, _, _)
AdaptFrom(c, file, i) ==
    IF i > Len(Sections) THEN [raised |-> "none", config |-> c]
    ELSE LET step == AdaptSection(c, file, Sections[i])
         IN  IF step.raised # "none" THEN step
             ELSE AdaptFrom(step.config, file, i + 1)

\* if "sources" not in self._config: self._config["sources"] = {} ...
Adapt(c, file) ==
    IF c.has_sources THEN [raised |-> "none", config |-> c]
    ELSE AdaptFrom([c EXCEPT !.has_sources = TRUE], file, 1)

\* reload: self._config is assigned the loaded mapping, which is then
\* adapted in place
ReloadOutcome(old, file) ==
    IF ~file.exists THEN [raised |-> "FileNotFoundError", config |-> old]
    ELSE IF ~file.parses THEN [raised |-> "YAMLError", config |-> old]
    ELSE Adapt(SafeLoad(file), file)

Reload ==
    LET o == ReloadOutcome(config, cfgFile)
    IN  /\ config' = o.config
        /\ cfgCall' = [op |-> "reload", pre |-> config, file |-> cfgFile,
                       raised |-> o.raised]
        /\ UNCHANGED cfgFile

\* the snapshot a reload of file gives when every step of it succeeds
FullSnapshot(file) ==
    IF file.has_sources THEN SafeLoad(file)
    ELSE [version |-> file.version, flat |-> {}, has_sources |-> TRUE,
          sources |-> {Group(s) : s \in Present(file)}]

WellFormed(file) ==
    /\ file.exists /\ file.parses
    /\ \A i \in 1..Len(Sections) : file[Sections[i]] # "bad"

\* the manager was constructed from a well-formed config.yaml
InitCfg ==
    /\ cfgFile \in {f \in CfgFiles : WellFormed(f) /\ f.version = 1}
    /\ config = FullSnapshot(cfgFile)
    /\ cfgCall = NoCfgCall
    /\ IdleAll /\ ThrIdle /\ SchedIdle /\ NormIdle /\ ExtIdle

\* config.yaml is edited, damaged or removed
DoEditFile ==
    /\ cfgFile' \in CfgFiles
    /\ UNCHANGED <<config, cfgCall>>
    /\ UNCHANGED exceptCfg

DoReload == Reload /\ UNCHANGED exceptCfg

NextCfg == DoEditFile \/ DoReload

SpecCfg == InitCfg /\ [][NextCfg]_vars

----------------------------------------------------------------------------
(* MultiSourceScheduler (multi_scheduler.py).  The clock counts minutes:   *)
(* the serve loop calls schedule.run_pending() and sleeps 60 seconds.      *)

MaxTick == 3        \* minutes the scheduler's clock passes through

\* schedule.every().day: a job that ran is due again a day later
DAY == 1440

\* the "time" setting of a source: no time (or disabled), one time, two times
TimeLists == {<<>>, <<0>>, <<1>>, <<0, 1>>}

SourceOrder == <<"hackernews", "github">>

\* the jobs start() registers: per enabled source, in the order of
\* sources_config, one job per entry of its time list
RECURSIVE Register(_, _)
Register(times, i) ==
    IF i > Len(SourceOrder) THEN <<>>
    ELSE [k \in 1..Len(times[SourceOrder[i]]) |->
             [source |-> SourceOrder[i], at |-> times[SourceOrder[i]][k],
              next_run |-> times[SourceOrder[i]][k]]]
         \o Register(times, i + 1)

\* the indices of the jobs whose next_run is t, in registration order
DueAt(jobs, t) ==
    SelectSeq([i \in 1..Len(jobs) |-> i], LAMBDA i : jobs[i].next_run = t)

\* run_pending: sorted(job for job in self.jobs if job.should_run), where
\* should_run is datetime.now() >= next_run and jobs compare by next_run
RECURSIVE Runnable(_, _, _)
Runnable(jobs, t, now_) ==
    IF t > now_ THEN <<>> ELSE DueAt(jobs, t) \o Runnable(jobs, t + 1, now_)

\* a job or task starts: one more entry of the job log
LogStart(s, source, at) ==
    [s EXCEPT !.log = Append(s.log, [source |-> source, at |-> at,
                                     started |-> s.tick, finished |-> 0 - 1,
                                     sseq |-> s.n + 1, fseq |-> 0]),
              !.n = s.n + 1]

\* the job or task of log entry e is over
LogFinish(s, e) ==
    [s EXCEPT !.log[e].finished = s.tick, !.log[e].fseq = s.n + 1, !.n = s.n + 1]

Running(s) == {e \in 1..Len(s.log) : s.log[e].finished < 0}

\* start(): the jobs are registered; with no job it returns
StartServe(times) ==
    LET jobs == Register(times, 1)
    IN  /\ sched' = [NoSched EXCEPT !.mode = "serve", !.jobs = jobs]
        /\ schedPc' = IF Len(jobs) = 0 THEN "done" ELSE "loop"

\* schedule.run_pending(): the due jobs are collected and sorted
RunPending ==
    /\ schedPc = "loop"
    /\ sched' = [sched EXCEPT !.pending = Runnable(sched.jobs, 0, sched.tick)]
    /\ schedPc' = "pending"

\* the wrapper of create_sync_job is entered: asyncio.run(sync_func())
RunJob ==
    /\ schedPc = "pending"
    /\ sched.pending # <<>>
    /\ LET j == Head(sched.pending)
       IN  sched' = [LogStart(sched, sched.jobs[j].source, sched.jobs[j].at)
                        EXCEPT !.cur = j]
    /\ schedPc' = "job"

\* time passes while a job or the gathered tasks run
JobTick ==
    /\ schedPc \in {"job", "gather"}
    /\ sched.tick < MaxTick
    /\ sched' = [sched EXCEPT !.tick = sched.tick + 1]
    /\ UNCHANGED schedPc

\* asyncio.run returns; the job is scheduled for the next day and
\* run_pending goes on with the next due job
JobFinish ==
    /\ schedPc = "job"
    /\ sched' = [LogFinish(sched, Len(sched.log)) EXCEPT
                    !.jobs[sched.cur].next_run = sched.jobs[sched.cur].at + DAY,
                    !.pending = Tail(sched.pending),
                    !.cur = 0]
    /\ schedPc' = "pending"

\* run_pending is over: time.sleep(60)
Sleep ==
    /\ schedPc = "pending"
    /\ sched.pending = <<>>
    /\ sched.tick < MaxTick
    /\ sched' = [sched EXCEPT !.tick = sched.tick + 1]
    /\ schedPc' = "loop"

\* run_once / run_all_sources_async: one coroutine per enabled source
RunOnce(enabled) ==
    LET tasks == SelectSeq(SourceOrder, LAMBDA s : s \in enabled)
    IN  /\ sched' = [NoSched EXCEPT !.mode = "once", !.todo = tasks]
        /\ schedPc' = IF tasks = <<>> THEN "done" ELSE "gather"

\* asyncio.gather: the next task starts once those before it have
\* suspended or finished
TaskStart ==
    /\ schedPc = "gather"
    /\ sched.todo # <<>>
    /\ sched' = [LogStart(sched, Head(sched.todo), 0) EXCEPT !.todo = Tail(sched.todo)]
    /\ UNCHANGED schedPc

\* a task finishes; gather returns after the last one
TaskFinish ==
    /\ schedPc = "gather"
    /\ \E e \in Running(sched) :
           /\ sched' = LogFinish(sched, e)
           /\ schedPc' = IF sched.todo = <<>> /\ Running(sched) = {e}
                         THEN "done" ELSE "gather"

InitSched ==
    /\ schedPc = "idle"
    /\ sched = NoSched
    /\ IdleAll /\ ThrIdle /\ CfgIdle /\ NormIdle /\ ExtIdle

DoStartServe ==
    /\ schedPc = "idle"
    /\ \E times \in [Sources -> TimeLists] : StartServe(times)
    /\ UNCHANGED exceptSched

DoRunOnce ==
    /\ schedPc = "idle"
    /\ \E enabled \in SUBSET Sources : RunOnce(enabled)
    /\ UNCHANGED exceptSched

DoRunPending == RunPending /\ UNCHANGED exceptSched
DoRunJob == RunJob /\ UNCHANGED exceptSched
DoJobTick == JobTick /\ UNCHANGED exceptSched
DoJobFinish == JobFinish /\ UNCHANGED exceptSched
DoSleep == Sleep /\ UNCHANGED exceptSched
DoTaskStart == TaskStart /\ UNCHANGED exceptSched
DoTaskFinish == TaskFinish /\ UNCHANGED exceptSched

NextSched ==
    \/ DoStartServe \/ DoRunOnce \/ DoRunPending \/ DoRunJob \/ DoJobTick
    \/ DoJobFinish \/ DoSleep \/ DoTaskStart \/ DoTaskFinish

SpecSched == InitSched /\ [][NextSched]_vars

----------------------------------------------------------------------------
(* cleanup_expired_projects (utils/github_db_new.py), on a store whose     *)
(* file github_projects.json is also rewritten by the GitHub pipeline.     *)

\* the days argument
GcDays == {1, 2}

\* project_data.get("last_seen", "") < cutoff_iso: isoformat strings compare
\* as their instants do, and "" is smaller than every cutoff
LastSeenBefore(p, cutoff) ==
    IF p.last_seen = NoneT THEN TRUE ELSE p.last_seen < cutoff

\* project_ids_to_remove
ToRemove(store, cutoff) ==
    {k \in DOMAIN store : LastSeenBefore(store[k], cutoff)}

CleanupExpiredProjects(days) ==
    LET remove == ToRemove(projects, now - days)
        cleaned_count == Cardinality(remove)
        kept == [k \in DOMAIN projects \ remove |-> projects[k]]
        file == IF cleaned_count > 0 THEN kept ELSE disk
    IN  /\ projects' = kept
        /\ disk' = file
        /\ dbCall' = [op |-> "cleanup_expired_projects", days |-> days,
                      pre |-> projects, pre_disk |-> disk,
                      post |-> kept, post_disk |-> file,
                      ret |-> cleaned_count, raised |-> "none", t |-> now]

InitGc ==
    /\ now = 0
    /\ projects \in RunStores
    /\ disk = projects
    /\ dbCall = NoCall
    /\ IdleButDB

DoCleanupExpiredProjects ==
    /\ \E days \in GcDays : CleanupExpiredProjects(days)
    /\ UNCHANGED now
    /\ UNCHANGED exceptDB

\* a run of fetch_github_trending in between rewrites the file
DoSaveGithubReposToFile ==
    /\ \E repos \in RepoSeqs : disk' = SaveGithubReposToFile(disk, repos)
    /\ UNCHANGED <<now, projects, dbCall>>
    /\ UNCHANGED exceptDB

\* the next process constructs GitHubProjectDB from the file
DoLoadDatabase ==
    /\ projects' = LoadDatabase
    /\ UNCHANGED <<now, disk, dbCall>>
    /\ UNCHANGED exceptDB

NextGc ==
    \/ Tick \/ DoAddProject \/ DoCleanupExpiredProjects
    \/ DoSaveGithubReposToFile \/ DoLoadDatabase

SpecGc == InitGc /\ [][NextGc]_vars

----------------------------------------------------------------------------
(* _normalize_existing_record (tools/github_fetcher.py) on the records of  *)
(* github_projects.json, and the JSON round trip of a record.              *)

MaxNormTime == 1    \* instants datetime.now() passes through
MaxTopics == 5      \* topics[:5]

\* the records the file can hold: written by the store (status, last_seen),
\* by the pipeline, or by an older version (fields missing)
StoredRecords ==
    [title : {<<>>, <<"T">>}, full_name : {<<>>, <<"o/r">>}, name : {<<"r">>},
     summary : {<<>>, <<"S">>}, description : {<<>>, <<"D">>},
     source_url : {<<>>}, stargazers_count : {0, 10}, score : {0, 7},
     ai_score : {0, 8}, is_ai_project : {"absent", "false"},
     updated_at : {0 - 1, 0}, status : {"absent", "crawled"},
     last_seen : {0 - 1, 0},
     topics : {<<>>, <<"a", "b", "c", "d", "e", "f">>}, tags : {<<>>, <<"x">>}]

\* x or y on strings and lists
OrText(x, y) == IF x # <<>> THEN x ELSE y
\* x or y on numbers
OrNum(x, y) == IF x # 0 THEN x ELSE y

TextFields == {"title", "full_name", "name", "summary", "description", "source_url",
               "topics", "tags"}
NumFields == {"stargazers_count", "score", "ai_score", "updated_at", "last_seen"}
StrFields == {"is_ai_project", "status"}
Fields == TextFields \cup NumFields \cup StrFields

\* the key is in the dict
HasKey(value, f) ==
    IF f \in StrFields THEN value[f] # "absent"
    ELSE IF f = "last_seen" THEN value[f] >= 0
    ELSE TRUE

\* json.dumps of the value of one key: a token
Encode(value, f) ==
    IF f \in TextFields THEN [kind |-> "text", n |-> 0, s |-> value[f]]
    ELSE IF f \in StrFields THEN [kind |-> "str", n |-> 0, s |-> <<value[f]>>]
    ELSE IF value[f] < 0 THEN [kind |-> "null", n |-> 0, s |-> <<>>]
    ELSE [kind |-> "num", n |-> value[f], s |-> <<>>]

\* json.loads of one token
Decode(tok) ==
    CASE tok.kind = "text" -> tok.s
      [] tok.kind = "str" -> tok.s[1]
      [] tok.kind = "null" -> 0 - 1
      [] OTHER -> tok.n

\* json.dump(record): the keys that are present, each with its token
Serialize(value) ==
    [f \in {g \in Fields : HasKey(value, g)} |-> Encode(value, f)]

\* json.load: a key that is not in the text is not in the dict
Load(text) ==
    [f \in Fields |->
        IF f \in DOMAIN text THEN Decode(text[f])
        ELSE IF f \in StrFields THEN "absent"
        ELSE IF f \in NumFields THEN 0 - 1
        ELSE <<>>]

\* _normalize_existing_record(value, source_url) called at time t
NormalizeRecord(value, source_url, t) ==
    LET url == OrText(value.source_url, source_url)
        description == OrText(OrText(value.description, value.summary), <<>>)
        stars == OrNum(OrNum(value.stargazers_count, value.score), 0)
        topics == OrText(OrText(value.topics, value.tags), <<>>)
        topics5 == SubSeq(topics, 1, IF Len(topics) < MaxTopics THEN Len(topics)
                                      ELSE MaxTopics)
        tags == OrText(value.tags, topics5)
    IN  [value EXCEPT
            !.source_url = url,
            !.title = OrText(value.title,
                             IF value.full_name # <<>> \/ value.name # <<>>
                             THEN value.full_name \o <<": ">> \o value.name
                             ELSE url),
            !.summary = OrText(OrText(value.summary, description),
                               IF value.name # <<>>
                               THEN <<"GitHub project: ">> \o value.name
                               ELSE <<"GitHub project">>),
            !.stargazers_count = stars,
            !.score = OrNum(value.score, stars),
            !.topics = topics5,
            !.tags = SubSeq(tags, 1, IF Len(tags) < MaxTopics THEN Len(tags)
                                     ELSE MaxTopics),
            !.is_ai_project = IF value.is_ai_project = "absent"
                              THEN IF value.ai_score > 0 THEN "true" ELSE "false"
                              ELSE value.is_ai_project,
            \* normalized.get("updated_at") or datetime.now().isoformat()
            !.updated_at = IF value.updated_at >= 0 THEN value.updated_at ELSE t,
            \* the redundant fields are popped
            !.status = "absent",
            !.last_seen = 0 - 1]

\* the key of the record in the file
RecordUrl == <<"https://github.com/o/r">>

InitNorm ==
    /\ norm = NoNorm
    /\ IdleAll /\ ThrIdle /\ CfgIdle /\ SchedIdle /\ ExtIdle

\* a record of the file is normalized
DoNormalize ==
    /\ norm.pc = "none"
    /\ \E value \in StoredRecords, t \in 0..MaxNormTime :
           norm' = [NoNorm EXCEPT !.pc = "once", !.value = value, !.t1 = t,
                                  !.first = NormalizeRecord(value, RecordUrl, t)]
    /\ UNCHANGED exceptNorm

\* later the same record, written to the file and read back, is normalized,
\* and so is the result of the first call
DoNormalizeAgain ==
    /\ norm.pc = "once"
    /\ \E t \in norm.t1..MaxNormTime :
           norm' = [norm EXCEPT
               !.pc = "again", !.t2 = t,
               !.reloaded = NormalizeRecord(Load(Serialize(norm.value)), RecordUrl, t),
               !.twice = NormalizeRecord(norm.first, RecordUrl, t)]
    /\ UNCHANGED exceptNorm

NextNorm == DoNormalize \/ DoNormalizeAgain

SpecNorm == InitNorm /\ [][NextNorm]_vars

----------------------------------------------------------------------------
(* fetch_github_trending, the search loop (lines 525-619): one query per   *)
(* trending kind and language.  A repo of all_repos is the pair of the     *)
(* kind and the language of the query that returned it.                    *)

MaxKinds == 2
MaxLangs == 3

\* what client.get(url, ...) brings: 200 with items, 200 without items, 403,
\* 403 with an X-RateLimit-Reset header that int() rejects, and any other
\* failure (another error status, a network error)
QueryResponses == {"ok", "empty", "forbidden", "forbidden_bad_reset", "error"}

\* lines 586-590: break when something was fetched before, else continue;
\* every other path of the loop body goes on to the next language
Breaks(response, all_repos) == response = "forbidden" /\ all_repos # <<>>

\* the position the loops move to after the body ran at (kind, lang)
NextPosition(q, break) ==
    IF ~break /\ q.lang < q.langs
    THEN [q EXCEPT !.lang = q.lang + 1]
    ELSE IF q.kind < q.kinds
    THEN [q EXCEPT !.kind = q.kind + 1, !.lang = 1]
    ELSE [q EXCEPT !.pc = "done"]

\* lines 505-523: the loops start with an empty all_repos
StartQueries(kinds, langs) ==
    query' = [NoQuery EXCEPT !.pc = "loop", !.kinds = kinds, !.langs = langs,
                             !.kind = 1, !.lang = 1]

\* one pass of the loop body, lines 528-619
QueryStep(response) ==
    LET fetched == IF response = "ok"
                   THEN Append(query.all_repos,
                               [kind |-> query.kind, lang |-> query.lang])
                   ELSE query.all_repos
        logged == Append(query.log, [kind |-> query.kind, lang |-> query.lang,
                                     response |-> response])
    IN  query' = NextPosition([query EXCEPT !.all_repos = fetched, !.log = logged],
                              Breaks(response, query.all_repos))

InitQuery ==
    /\ IdleAll /\ ThrIdle /\ CfgIdle /\ SchedIdle /\ NormIdle /\ ExtIdle

DoStartQueries ==
    /\ query.pc = "idle"
    /\ \E kinds \in 1..MaxKinds, langs \in 1..MaxLangs : StartQueries(kinds, langs)
    /\ UNCHANGED <<dbVars, clsVars, trVars, sinkVars, runVars, rssVars, crashVars,
                 thrVars, cfgVars, schedVars, normVars, sync, arxiv>>

DoQuery ==
    /\ query.pc = "loop"
    /\ \E response \in QueryResponses : QueryStep(response)
    /\ UNCHANGED <<dbVars, clsVars, trVars, sinkVars, runVars, rssVars, crashVars,
                 thrVars, cfgVars, schedVars, normVars, sync, arxiv>>

NextQuery == DoStartQueries \/ DoQuery

SpecQuery == InitQuery /\ [][NextQuery]_vars

----------------------------------------------------------------------------
(* MultiSourceScheduler.sync_rss with fetch_rss_feeds, for one configured  *)
(* feed.  The fetch cache is the SimpleCache of the pipelines, the file is *)
(* rss_{timestamp}.json of today's output directory; its content is the    *)
(* "feeds" object, feed name -> the links of its items.                    *)

FEED_CACHE_TTL == 600

\* the instants the clock passes through: around the TTL of a feed result
FeedTimes == {0, FEED_CACHE_TTL, FEED_CACHE_TTL + 1}

FeedName == "f1"

\* the items lists _fetch_single_feed returns
FeedBatches == {<<>>, <<"l1">>, <<"l2">>}

\* what _fetch_single_feed does: returns its dict, or raises (gather then
\* hands the exception over as the result)
FeedOutcomes == [kind : {"ok"}, items : FeedBatches]
                \cup {[kind |-> "raised", items |-> <<>>]}

\* lines 85-86: cache_key, for the limit sync_rss passes
FeedKey == <<"rss", FeedName, 10>>

\* lines 109-129: the entry of the feed in feeds_result
FeedData(result) == [items |-> result.items]

\* lines 277-296: the feeds object after the merge of new_feed_data
MergeFeeds(existing_feeds, new_feed_data) ==
    IF FeedName \in DOMAIN existing_feeds
    THEN LET existing_items == existing_feeds[FeedName]
             fresh == SelectSeq(new_feed_data.items,
                         LAMBDA item : \A i \in 1..Len(existing_items) :
                                           existing_items[i] # item)
         IN  [existing_feeds EXCEPT ![FeedName] = existing_items \o fresh]
    ELSE (FeedName :> new_feed_data.items) @@ existing_feeds

\* lines 249-323: the write of the result to today's rss file
WriteFeeds(new_feed_data) ==
    IF Glob("rss") # {}
    THEN LET output_file == Latest(Glob("rss"))
         IN  WriteJson(output_file, "feeds",
                       MergeFeeds(files[output_file].items, new_feed_data))
    ELSE WriteJson(TimestampName("rss", sinkClock), "feeds",
                   (FeedName :> new_feed_data.items))

\* sync_rss(max_results).  coroutine_available: the interpreter still has
\* asyncio.coroutine (it was removed in Python 3.11), which line 94 of
\* fetch_rss_feeds calls on a cache hit.
SyncRss(has_urls, coroutine_available, outcome) ==
    LET cached == CacheGet(FeedKey)
        hit == cached # NoResult
        done(c, f, raised, wrote) ==
            sync' = [op |-> "sync_rss", cached |-> c, fetched |-> f,
                     raised |-> raised, wrote |-> wrote]
    IN  IF ~has_urls
        \* lines 232-234
        THEN /\ done(FALSE, FALSE, "none", FALSE)
             /\ UNCHANGED <<cache, files, sinkSeq>>
        ELSE IF hit /\ ~coroutine_available
        \* line 94 raises AttributeError, caught at line 346
        THEN /\ done(TRUE, FALSE, "AttributeError", FALSE)
             /\ UNCHANGED <<cache, files, sinkSeq>>
        ELSE IF hit
        \* the cached dict is the result: set again (line 124), then saved
        THEN /\ cache' = CacheSet(cache, FeedKey, cached, FEED_CACHE_TTL)
             /\ WriteFeeds(FeedData(cached))
             /\ done(TRUE, FALSE, "none", TRUE)
        ELSE IF outcome.kind = "raised"
        \* lines 112-120: an error entry with no items, nothing cached
        THEN /\ cache' = CacheAfterGet(FeedKey)
             /\ WriteFeeds([items |-> <<>>])
             /\ done(FALSE, TRUE, "none", TRUE)
        ELSE /\ cache' = CacheSet(CacheAfterGet(FeedKey), FeedKey,
                                  [items |-> outcome.items], FEED_CACHE_TTL)
             /\ WriteFeeds(FeedData(outcome))
             /\ done(FALSE, TRUE, "none", TRUE)

InitFeed ==
    /\ IdleAll /\ ThrIdle /\ CfgIdle /\ SchedIdle /\ NormIdle /\ ExtIdle

FeedTick ==
    /\ \E t \in FeedTimes : t > clock /\ clock' = t
    /\ UNCHANGED <<cache, runPc, run, runs>>
    /\ UNCHANGED <<dbVars, clsVars, trVars, sinkVars, rssVars, crashVars,
                 thrVars, cfgVars, schedVars, normVars, extVars>>

DoSyncRss ==
    /\ sinkSeq < MaxWrites
    /\ \E has_urls \in BOOLEAN, coroutine_available \in BOOLEAN,
          outcome \in FeedOutcomes :
           SyncRss(has_urls, coroutine_available, outcome)
    /\ UNCHANGED <<clock, runPc, run, runs>>
    /\ UNCHANGED <<sinkClock, sinkLog, sinkCall>>
    /\ UNCHANGED <<dbVars, clsVars, trVars, rssVars, crashVars,
                 thrVars, cfgVars, schedVars, normVars, query, arxiv>>

NextFeed == FeedTick \/ DoSyncRss

SpecFeed == InitFeed /\ [][NextFeed]_vars

----------------------------------------------------------------------------
(* search_arxiv (mode "search"): one fetch_arxiv_papers coroutine per      *)
(* valid category, handed to asyncio.gather.  The event loop starts the    *)
(* tasks in the order of the list; a fetch is in flight from its start to  *)
(* its return.  The script fetch_arxiv.py (mode "script") wraps each fetch *)
(* in "async with semaphore".                                              *)

\* len(ARXIV_CATEGORIES)
NUM_CATEGORIES == 13

\* asyncio.Semaphore(5) of the script
SEMAPHORE == 5

\* lines 259-268: no valid category returns the error dict at once
SearchArxiv(n) ==
    arxiv' = [NoArxiv EXCEPT !.pc = IF n = 0 THEN "done" ELSE "gather",
                             !.mode = "search", !.n = n]

\* the script, lines 78-90: no enabled category returns the error dict
FetchArxivScript(n) ==
    arxiv' = [NoArxiv EXCEPT !.pc = IF n = 0 THEN "done" ELSE "gather",
                             !.mode = "script", !.n = n]

\* the next task of the list runs fetch_arxiv_papers up to its first
\* suspension (run_in_executor, line 102), or to its return on a cache hit
\* (lines 78-80)
FetchStart(cached) ==
    arxiv' = [arxiv EXCEPT !.started = @ + 1,
                           !.done = IF cached THEN @ \cup {arxiv.started + 1}
                                    ELSE @]

\* the fetch of category c returns (lines 201-225)
FetchFinish(c) == arxiv' = [arxiv EXCEPT !.done = @ \cup {c}]

\* line 280: gather returns when every task has returned
GatherReturn == arxiv' = [arxiv EXCEPT !.pc = "done"]

\* the category fetches in flight
InFlight == (1..arxiv.started) \ arxiv.done

\* the script, line 94: the semaphore lets the next fetch in
Acquires == arxiv.mode = "script" => Cardinality(InFlight) < SEMAPHORE

InitArxiv ==
    /\ IdleAll /\ ThrIdle /\ CfgIdle /\ SchedIdle /\ NormIdle /\ ExtIdle

DoSearchArxiv ==
    /\ arxiv.pc = "idle"
    /\ \E n \in 0..NUM_CATEGORIES : SearchArxiv(n)
    /\ UNCHANGED <<dbVars, clsVars, trVars, sinkVars, runVars, rssVars, crashVars,
                 thrVars, cfgVars, schedVars, normVars, query, sync>>

DoFetchArxivScript ==
    /\ arxiv.pc = "idle"
    /\ \E n \in 0..NUM_CATEGORIES : FetchArxivScript(n)
    /\ UNCHANGED <<dbVars, clsVars, trVars, sinkVars, runVars, rssVars, crashVars,
                 thrVars, cfgVars, schedVars, normVars, query, sync>>

DoFetchStart ==
    /\ arxiv.pc = "gather"
    /\ arxiv.started < arxiv.n
    /\ Acquires
    /\ \E cached \in BOOLEAN : FetchStart(cached)
    /\ UNCHANGED <<dbVars, clsVars, trVars, sinkVars, runVars, rssVars, crashVars,
                 thrVars, cfgVars, schedVars, normVars, query, sync>>

DoFetchFinish ==
    /\ arxiv.pc = "gather"
    /\ \E c \in InFlight : FetchFinish(c)
    /\ UNCHANGED <<dbVars, clsVars, trVars, sinkVars, runVars, rssVars, crashVars,
                 thrVars, cfgVars, schedVars, normVars, query, sync>>

DoGatherReturn ==
    /\ arxiv.pc = "gather"
    /\ arxiv.done = 1..arxiv.n
    /\ GatherReturn
    /\ UNCHANGED <<dbVars, clsVars, trVars, sinkVars, runVars, rssVars, crashVars,
                 thrVars, cfgVars, schedVars, normVars, query, sync>>

NextArxiv ==
    DoSearchArxiv \/ DoFetchArxivScript \/ DoFetchStart \/ DoFetchFinish \/ DoGatherReturn

SpecArxiv == InitArxiv /\ [][NextArxiv]_vars

----------------------------------------------------------------------------
(* Properties of the project state store *)

\* the order crawled < ai_screened < whitelisted of the status lifecycle
LifecycleRank(s) ==
    IF s = "whitelisted" THEN 2 ELSE IF s = "ai_screened" THEN 1 ELSE 0

\* C1: an upsert (add_project, mark_as_ai_screened, mark_as_whitelisted) on
\* an existing key never moves the stored status down the order
\* crawled < ai_screened < whitelisted, and an incoming status that is lower
\* than or equal to the stored one leaves the stored status unchanged.
C1_StatusMonotonic ==
    (dbCall.op = "add_project" /\ dbCall.pre # NoRec) =>
        /\ dbCall.key \in DOMAIN projects
        /\ LifecycleRank(projects[dbCall.key].status) >= LifecycleRank(dbCall.pre.status)
        /\ (LifecycleRank(dbCall.status) <= LifecycleRank(dbCall.pre.status) =>
               projects[dbCall.key].status = dbCall.pre.status)

\* an upsert with status crawled was stored over a whitelisted record
C1_Witness ==
    /\ dbCall.op = "add_project"
    /\ dbCall.status = "crawled"
    /\ dbCall.raised = "AttributeError"
    /\ dbCall.pre.status = "whitelisted"
    /\ projects[dbCall.key].status = "whitelisted"
    /\ projects[dbCall.key].last_seen > dbCall.pre.last_seen

\* C2: is_whitelisted returns true only for an existing record with status
\* whitelisted and whitelisted_until strictly later than now; for an absent
\* key, another status, or a missing or unparseable whitelisted_until it
\* returns false.
C2_WhitelistedOnlyIfValid ==
    dbCall.op = "is_whitelisted" =>
        /\ dbCall.ret =>
               /\ dbCall.pre # NoRec
               /\ dbCall.pre.status = "whitelisted"
               /\ dbCall.pre.whitelisted_until > dbCall.t
        /\ (\/ dbCall.pre = NoRec
            \/ dbCall.pre.status # "whitelisted"
            \/ dbCall.pre.whitelisted_until \in {NoneT, BadTime}) => ~dbCall.ret

\* is_whitelisted answered true at a later time than the store was loaded
C2_Witness ==
    /\ dbCall.op = "is_whitelisted"
    /\ dbCall.ret
    /\ dbCall.t > 0
    /\ dbCall.pre.whitelisted_until > dbCall.t

\* C9: is_whitelisted on a whitelisted record whose whitelisted_until has
\* passed sets the status to expired, has the store on disk when it returns,
\* and returns false; on a record that is expired it returns false.
C9_ExpiryOnRead ==
    dbCall.op = "is_whitelisted" =>
        /\ (/\ dbCall.pre.status = "whitelisted"
            /\ dbCall.pre.whitelisted_until >= 0
            /\ dbCall.pre.whitelisted_until <= dbCall.t) =>
               /\ projects[dbCall.key].status = "expired"
               /\ disk = projects
               /\ ~dbCall.ret
        /\ dbCall.pre.status = "expired" => ~dbCall.ret

\* the first read after the TTL elapsed made the record expired
C9_Witness ==
    /\ dbCall.op = "is_whitelisted"
    /\ dbCall.pre.status = "whitelisted"
    /\ dbCall.pre.whitelisted_until >= 0
    /\ dbCall.pre.whitelisted_until < dbCall.t
    /\ projects[dbCall.key].status = "expired"
    /\ disk[dbCall.key].status = "expired"

----------------------------------------------------------------------------
(* Properties of the LLM classifier *)

TitleIds == {clsIn.titles[i] : i \in 1..Len(clsIn.titles)}

\* C3: classify_titles_batch returns exactly one verdict per requested id:
\* as many verdicts as titles, and exactly the titles' ids.
C3_OneVerdictPerId ==
    clsPc = "done" =>
        /\ Len(clsResults) = Len(clsIn.titles)
        /\ VerdictIds(clsResults) = TitleIds
        /\ \A id \in TitleIds :
               Cardinality({i \in 1..Len(clsResults) : clsResults[i].id = id}) = 1

\* the response to the last batch carries verdicts for only a subset of the
\* requested ids: every object has an id, no id twice, some requested id absent
RespIdsOf(objs) == {objs[i].id : i \in 1..Len(objs)}
BatchIdsOf(batch) == {batch[i] : i \in 1..Len(batch)}
SubsetResponse(batch, resp) ==
    /\ resp.kind = "ok"
    /\ resp.shape \in {"array", "truncated", "lines"}
    /\ \A i \in 1..Len(resp.objs) : resp.objs[i].has_id
    /\ Cardinality(RespIdsOf(resp.objs)) = Len(resp.objs)
    /\ RespIdsOf(resp.objs) \subseteq BatchIdsOf(batch)
    /\ RespIdsOf(resp.objs) # BatchIdsOf(batch)

----------------------------------------------------------------------------
(* Properties of the translator *)

\* C6: every summary returned by translate_article_item has at most 300
\* characters.
C6_SummaryAtMost300 ==
    trCall.op = "translate_article_item" => Len(trCall.out.summary) <= SUMMARY_MAX


----------------------------------------------------------------------------
(* Properties of the output manager *)

\* the items of sequence s
ItemsOf(s) == {s[i] : i \in 1..Len(s)}

\* C5: after an append_items_batch call for a source has written its batch,
\* the file it wrote to holds every item appended for that source today,
\* whatever save_result and save_incremental wrote in between.
C5_SinkHoldsAllBatches ==
    (sinkCall.op = "append_items_batch" /\ sinkCall.wrote) =>
        ItemsOf(sinkLog[sinkCall.source]) \subseteq ItemsOf(files[sinkCall.path].items)

(***************************************************************************)
(* Properties of the pipeline invocations                                  *)
(***************************************************************************)
StoryIds(s) == {s[i].id : i \in 1..Len(s)}

DefaultScored(s) == \A i \in 1..Len(s) : s[i].ai_score = DEFAULT_SCORE

\* C4: when the classification request of a run gets no usable response,
\* every titled story of the batch carries the default score 0.5 and stays in
\* the run: while the batches are processed the stories still to do and the
\* stories done are exactly the titled stories, and a result returned with
\* success holds every one of them.
C4_OutageKeepsEveryItem ==
    run.outage =>
        /\ runPc = "batches" =>
               /\ StoryIds(run.todo) \cup StoryIds(run.ai_stories) = StoryIds(
                      [i \in 1..Len(run.titles) |-> [id |-> run.titles[i]]])
               /\ DefaultScored(run.todo)
               /\ DefaultScored(run.ai_stories)
        /\ (run.returned /\ run.result.success) =>
               /\ StoryIds(run.result.items) = StoryIds(
                      [i \in 1..Len(run.titles) |-> [id |-> run.titles[i]]])
               /\ Len(run.result.items) = Len(run.titles)
               /\ DefaultScored(run.result.items)

\* a run whose classification request failed returned both of its titled
\* stories
C4_Witness ==
    /\ run.outage
    /\ run.returned
    /\ run.result.success
    /\ Len(run.titles) = 2
    /\ Len(run.result.items) = 2

\* C7: an invocation that starts while the cache holds an unexpired entry for
\* its source and parameters (the entry an earlier run of the same invocation
\* stored) sends no classification request and returns the stored result.
C7_SecondRunMemoized ==
    (run.source # "none" /\ run.entry # NoEntry /\ run.t0 <= run.entry.expires_at) =>
        /\ run.returned
        /\ ~run.raised
        /\ run.calls = 0
        /\ run.result = run.entry.value

\* the second run of the Hacker News pipeline starts at the very instant the
\* entry of the first run expires, a first run that sent a request
C7_Witness ==
    /\ runs = 2
    /\ run.source = "hackernews"
    /\ run.entry # NoEntry
    /\ run.t0 = run.entry.expires_at
    /\ run.t0 > 0
    /\ run.returned
    /\ run.result.success
    /\ run.result.items # <<>>

\* C8: an invocation never raises: it returns a FetchResult of its source,
\* and when a failure ended the run the result has success = false and an
\* error text.
C8_NeverRaises ==
    /\ ~run.raised
    /\ run.returned =>
           /\ run.result # NoResult
           /\ run.result.source_type = run.source
           /\ run.failure # "none" =>
                  (~run.result.success /\ run.result.error # "")

\* a GitHub run ended by an exception of the project state store
C8_Witness ==
    /\ run.source = "github"
    /\ run.returned
    /\ dbCall.raised # "none"
    /\ run.failure = dbCall.raised
    /\ ~run.result.success
    /\ run.result.error # ""

(***************************************************************************)
(* Properties of the classifier's retry loop                               *)
(***************************************************************************)
\* C11: a batch whose request failed with a transport error, a timeout or an
\* HTTP error status has been attempted three times (two retries) before it
\* is answered with default verdicts.
C11_FailedRequestRetried ==
    (clsLast.resp.kind \in Failures) => clsLast.attempts = MAX_RETRIES + 1

\* a verdict as the caller reads it
IsVerdict(v) ==
    /\ DOMAIN v = {"id", "score", "keep", "reason"}
    /\ v.keep \in BOOLEAN

\* C12: classify_titles_batch never raises: whatever the request of a batch
\* ends with (transport failure, HTTP error status, no choices, malformed or
\* unparseable content) the batch is answered with a non-empty list of
\* verdicts, and the call ends by returning its list.
C12_ClassifierNeverRaises ==
    /\ clsPc # "raised"
    /\ clsLast # NoBatch =>
           /\ clsLast.out # <<>>
           /\ \A i \in 1..Len(clsLast.out) : IsVerdict(clsLast.out[i])
    /\ clsPc = "done" =>
           \A i \in 1..Len(clsResults) : IsVerdict(clsResults[i])

\* a call of two titles returned after a batch whose response content held no
\* parseable object
C12_Witness ==
    /\ clsPc = "done"
    /\ Len(clsIn.titles) = 2
    /\ clsLast.resp.kind = "ok"
    /\ clsLast.resp.shape = "lines"
    /\ clsLast.resp.objs = <<>>
    /\ Len(clsResults) >= 2

(***************************************************************************)
(* Properties of the GitHub pipeline and the store                         *)
(***************************************************************************)
\* C13: a run that fetched a repo whose record is whitelisted and not expired
\* (is_whitelisted answered True) sends no classification request, returns
\* with success, and leaves the record whitelisted with the same
\* whitelisted_until, last_seen refreshed and the fetched star count.
C13_WhitelistedRepoSkipsLlm ==
    (/\ run.source = "github"
     /\ run.returned
     /\ run.t0 > run.entry.expires_at
     /\ dbCall.op = "is_whitelisted"
     /\ dbCall.ret) =>
        /\ run.calls = 0
        /\ run.result.success
        /\ run.result.items # <<>>
        /\ projects[dbCall.key].status = "whitelisted"
        /\ projects[dbCall.key].whitelisted_until = dbCall.pre.whitelisted_until
        /\ projects[dbCall.key].last_seen = now
        /\ projects[dbCall.key].stargazers_count \in
               {r.stargazers_count : r \in Repos}

(***************************************************************************)
(* Properties of the RSS pipeline                                          *)
(***************************************************************************)
\* C14: once the translation batch of a feed has completed, the items it
\* produced are in a file of the output directory.
C14_TranslatedItemsInSink ==
    (rssPc = "returned" /\ rss.translated) =>
        \A i \in 1..Len(rss.items) :
            \E path \in DOMAIN files : rss.items[i] \in ItemsOf(files[path].items)

\* published before the cutoff of the run
BeforeCutoff(item) ==
    /\ item.published.kind \in {"aware", "naive"}
    /\ item.published.at < Cutoff(rss.recent_days)

\* C15: no item published before utcnow - recent_days is sent to the
\* classifier or is among the items returned, and every entry without a
\* published date passes the time filter.
C15_OldRecordsDropped ==
    /\ rssPc \in {"translate", "returned"} =>
           /\ \A i \in 1..Len(rss.sent) : ~BeforeCutoff(rss.sent[i])
           /\ \A i \in 1..Len(rss.items) : ~BeforeCutoff(rss.items[i])
    /\ rssPc = "classify" =>
           \A i \in 1..Len(rss.entries) :
               rss.entries[i].kind = "none" =>
                   \E j \in 1..Len(rss.items) : rss.items[j].id = i

(***************************************************************************)
(* Properties of the pipelines on an empty fetch                           *)
(***************************************************************************)
\* C16: a run whose adapter brought back zero records (no story, no repo)
\* returns success = true with count 0 and no items, sends no
\* classification request and, when it is the first run, leaves the output
\* directory unwritten.
C16_EmptyFetchSucceeds ==
    (run.returned /\ run.failure \in {"no_details", "no_repos"}) =>
        /\ run.result.success
        /\ run.result.total_count = 0
        /\ run.result.items = <<>>
        /\ run.calls = 0
        /\ runs = 1 => sinkSeq = 0

(***************************************************************************)
(* Further properties of the project state store                           *)
(***************************************************************************)
\* C17: after add_project with status whitelisted on a record that is not
\* whitelisted, the record is whitelisted until now + 30 days; an upsert on a
\* whitelisted record keeps its whitelisted_until; and after an upsert the
\* record has whitelisted_until set exactly when its status is whitelisted.
C17_WhitelistedUntilSet ==
    dbCall.op = "add_project" =>
        /\ (dbCall.status = "whitelisted" /\ dbCall.pre.status # "whitelisted") =>
               /\ dbCall.key \in DOMAIN projects
               /\ projects[dbCall.key].status = "whitelisted"
               /\ projects[dbCall.key].whitelisted_until = dbCall.t + WHITELIST_DAYS
        /\ dbCall.pre.status = "whitelisted" =>
               projects[dbCall.key].whitelisted_until = dbCall.pre.whitelisted_until
        /\ dbCall.key \in DOMAIN projects =>
               (projects[dbCall.key].whitelisted_until # NoneT
                    <=> projects[dbCall.key].status = "whitelisted")

\* C18: every stored record whose status is ai_screened has last_screened_at
\* set.
C18_ScreenedHasTimestamp ==
    \A k \in DOMAIN projects :
        projects[k].status = "ai_screened" => projects[k].last_screened_at # NoneT

\* C19: after a crash during a write of the store file and the load by the
\* next process, the store is the complete record set the file held before
\* the write or the complete record set that was being written.
C19_CrashLeavesCompleteSet ==
    crash.phase = "reloaded" => projects \in {crash.prev, crash.next}

\* project.get("status", "crawled") on a record loaded from the file
LoadedStatus(rec) == IF rec.status = "none" THEN "crawled" ELSE rec.status

\* C20: after a fetch_github_trending run that went through to its end, the
\* store file holds every key of the in-memory store with the same status,
\* ai_score and whitelisted_until, so that a fresh load reports them.
C20_StoreFileKeepsLifecycle ==
    (/\ run.source = "github"
     /\ run.returned
     /\ run.result.success
     /\ run.t0 > run.entry.expires_at) =>
        \A k \in DOMAIN projects :
            /\ k \in DOMAIN disk
            /\ LoadedStatus(disk[k]) = projects[k].status
            /\ disk[k].ai_score = projects[k].ai_score
            /\ disk[k].whitelisted_until = projects[k].whitelisted_until

C22_ThreadSafe ==
    \A i \in DOMAIN thread :
        /\ thread[i].raised = "none"
        /\ (thread[i].op = "get" /\ thread[i].pc = "idle" /\ thread[i].ret # NoneV) =>
               thread[i].entry.expires_at >= thread[i].t_check

\* C23: after a reload that failed the snapshot is the one from before the
\* call; after a reload that succeeded it is fully the new one
C23_ReloadAtomic ==
    cfgCall.op = "reload" =>
        IF cfgCall.raised # "none"
        THEN config = cfgCall.pre
        ELSE config = FullSnapshot(cfgCall.file)

\* the entries of the job log
LogEntries == 1..Len(sched.log)

\* C24: at most one job of a source runs at any moment, and a trigger that
\* became due while the previous job of its source was running is never
\* executed
C24_NoOverlapAndSkip ==
    /\ \A e1, e2 \in Running(sched) :
           sched.log[e1].source = sched.log[e2].source => e1 = e2
    /\ \A e1, e2 \in LogEntries :
           ~ /\ sched.log[e1].source = sched.log[e2].source
             /\ e1 < e2
             /\ sched.log[e1].finished >= 0
             /\ sched.log[e1].started < sched.log[e2].at
             /\ sched.log[e2].at < sched.log[e1].finished

\* C25: of two jobs of different sources due at the same tick (serve mode)
\* or both enabled (once mode), the second starts before the first finishes
C25_DifferentSourcesConcurrent ==
    \A e1, e2 \in LogEntries :
        (/\ e1 < e2
         /\ sched.log[e1].source # sched.log[e2].source
         /\ sched.log[e1].at = sched.log[e2].at)
        => (sched.log[e1].fseq = 0 \/ sched.log[e2].sseq < sched.log[e1].fseq)

\* the record's last_seen is older than the cutoff
Older(p, cutoff) == p.last_seen # NoneT /\ p.last_seen < cutoff

\* C26: cleanup_expired_projects(days) removes exactly the records whose
\* last_seen is older than now - days, leaves the others unchanged, returns
\* the number removed and writes the file iff it removed a record
C26_CleanupRemovesExactlyOld ==
    dbCall.op = "cleanup_expired_projects" =>
        /\ DOMAIN dbCall.post =
               {k \in DOMAIN dbCall.pre : ~Older(dbCall.pre[k], dbCall.t - dbCall.days)}
        /\ \A k \in DOMAIN dbCall.post : dbCall.post[k] = dbCall.pre[k]
        /\ dbCall.ret = Cardinality(DOMAIN dbCall.pre \ DOMAIN dbCall.post)
        /\ dbCall.post_disk = IF dbCall.ret > 0 THEN dbCall.post ELSE dbCall.pre_disk

\* C27: with the LLM unconfigured, disabled or without an API key,
\* classify_titles_batch returns for every id, in input order, a verdict
\* with keep = true and score = 0.5, and no request is sent
C27_UnusableLlmKeepsAll ==
    (/\ clsPc = "done"
     /\ ~(clsIn.llm.present /\ clsIn.llm.enabled /\ clsIn.llm.api_key # ""))
    => /\ Len(clsResults) = Len(clsIn.titles)
       /\ \A i \in 1..Len(clsIn.titles) :
              /\ clsResults[i].id = clsIn.titles[i]
              /\ clsResults[i].keep
              /\ clsResults[i].score = 5
       /\ clsCalls = 0

\* an enabled LLM without a key: two titles answered, no request sent
C27_Witness ==
    /\ clsPc = "done"
    /\ clsIn.llm.present /\ clsIn.llm.enabled /\ clsIn.llm.api_key = ""
    /\ Len(clsIn.titles) = 2
    /\ Len(clsResults) = 2
    /\ clsResults[2].id = clsIn.titles[2] /\ clsResults[2].keep
    /\ clsCalls = 0

\* C28: a title or summary with a CJK ideograph is not sent to the LLM and
\* comes back unchanged (a summary longer than 300 characters clipped), and
\* translate_article_item applied to its own output returns that output
C28_TranslatorIdempotent ==
    /\ trCall.op \in {"translate_article_item", "translate_article_item_again"} =>
           /\ HasChinese(trCall.title) =>
                  ~trCall.sent.title /\ trCall.out.title = trCall.title
           /\ HasChinese(trCall.summary) =>
                  /\ ~trCall.sent.summary
                  /\ Len(trCall.summary) <= SUMMARY_MAX =>
                         trCall.out.summary = trCall.summary
    /\ trCall.op = "translate_article_item_again" =>
           trCall.out = [title |-> trCall.title, summary |-> trCall.summary]

\* C29: normalize(load(serialize(r))) = normalize(r) and
\* normalize(normalize(r)) = normalize(r) for every stored record r
C29_NormalizePureIdempotent ==
    norm.pc = "again" =>
        /\ norm.reloaded = norm.first
        /\ norm.twice = norm.first

\* C30: a run that fetched a repo which is not in the saved item file and
\* whose store record is ai_screened sends no classification request and
\* returns the repo in its result, with the stored ai_score and ai_reason
C30_ScreenedRepoReused ==
    (run.source = "github" /\ run.returned /\ run.filtered_repos # <<>>) =>
        \A k \in 1..Len(run.filtered_repos) :
            LET repo == run.filtered_repos[k]
            IN  /\ run.calls = 0
                /\ repo.ai_score = projects[repo.html_url].ai_score
                /\ repo.ai_reason = projects[repo.html_url].ai_reason
                /\ run.result.success
                /\ \E i \in 1..Len(run.result.items) :
                       run.result.items[i].url = repo.html_url

\* the record lines 833-839 (and the save of line 766) leave in the item
\* file for a repo that is not an AI project: no status, ai_score 0
RecordedRejected(file, url) ==
    /\ url \in DOMAIN file
    /\ file[url].status = "none"
    /\ file[url].ai_score = 0

C33_VerdictPreservedUnlessScreened ==
    (dbCall.op = "add_project" /\ dbCall.pre # NoRec) =>
        LET R == dbCall.pre
            stored == projects[dbCall.key]
        IN  /\ dbCall.key \in DOMAIN projects
            /\ dbCall.status = "crawled" =>
                   /\ stored.ai_score = R.ai_score
                   /\ stored.ai_reason = R.ai_reason
                   /\ stored.last_screened_at = R.last_screened_at
            /\ dbCall.status \in {"ai_screened", "whitelisted"} =>
                   /\ stored.ai_score = dbCall.ai_score
                   /\ stored.ai_reason = dbCall.ai_reason
                   /\ stored.last_screened_at = dbCall.t

\* C34: an upsert on a record whose status is expired stores the incoming
\* status when that is ai_screened or whitelisted, and leaves the record
\* expired when the incoming status is crawled.
C34_ExpiredRanksAsCrawled ==
    (dbCall.op = "add_project" /\ dbCall.pre.status = "expired") =>
        /\ dbCall.key \in DOMAIN projects
        /\ projects[dbCall.key].status =
               IF dbCall.status \in {"ai_screened", "whitelisted"}
               THEN dbCall.status
               ELSE "expired"

\* C36: no sink file that append_items_batch writes for the headline or the
\* repo source holds the same item (an item is identified by its url) twice.
C36_SinkUrlsUnique ==
    \A f \in DOMAIN files :
        (f.source \in {"hackernews", "github"} /\ files[f].shape = "dict") =>
            \A i, j \in 1..Len(files[f].items) :
                i # j => files[f].items[i] # files[f].items[j]

\* the queries that answered 403
Forbidden(e) == e.response \in {"forbidden", "forbidden_bad_reset"}

\* C35: after a query answered 403 no further query of the same trending
\* kind is issued, the queries of the next kind are still issued, and
\* all_repos holds the records of every query that succeeded, whether or not
\* anything had been fetched before the 403.
C35_ForbiddenEndsKind ==
    LET log == query.log
        ok == SelectSeq(log, LAMBDA e : e.response = "ok")
    IN  /\ \A a, b \in 1..Len(log) :
               (a < b /\ Forbidden(log[a])) => log[b].kind # log[a].kind
        /\ query.pc = "done" =>
               \A a \in 1..Len(log) :
                   (Forbidden(log[a]) /\ log[a].kind < query.kinds) =>
                       \E b \in 1..Len(log) : log[b].kind = log[a].kind + 1
        /\ query.all_repos =
               [i \in 1..Len(ok) |-> [kind |-> ok[i].kind, lang |-> ok[i].lang]]

\* C37: a sync_rss call whose feed fetch was answered from the fetch cache
\* performs no write to the sink.
C37_CachedResultNotWritten ==
    (sync.op = "sync_rss" /\ sync.cached) => ~sync.wrote

\* C38: at no time are more than 5 category fetches of one search_arxiv
\* call in flight.
C38_AtMostFiveInFlight == Cardinality(InFlight) <= 5

\* C39: every add_project call completes without raising, and afterwards
\* the record is in the store under the repo's key and in the store file.
C39_AddProjectNeverRaises ==
    dbCall.op = "add_project" =>
        /\ dbCall.raised = "none"
        /\ dbCall.key \in DOMAIN projects
        /\ dbCall.key \in DOMAIN disk
        /\ disk[dbCall.key] = projects[dbCall.key]

\* C40: the store call the pipeline makes for a repo that passed AI
\* screening (mark_as_ai_screened, line 830 of the fetcher) leaves the record
\* whitelisted, with whitelisted_until 30 days after the call.
C40_ScreenedRepoWhitelisted ==
    (dbCall.op = "add_project" /\ dbCall.status = "ai_screened") =>
        /\ dbCall.key \in DOMAIN projects
        /\ projects[dbCall.key].status = "whitelisted"
        /\ projects[dbCall.key].whitelisted_until = dbCall.t + WHITELIST_DAYS

====
